---- MODULE Spec2Model ----
(***************************************************************************)
(* State-machine model of the Streptomyces growth simulation engine:       *)
(* growable arrays, spatial hash index, cell/colony model, chemistry,      *)
(* conditions, event propensities, actions and the Gillespie driver.       *)
(*                                                                         *)
(* Numbers: the program computes with float64.  The model computes with    *)
(* integers: molecule counts, rates and linear factors are integers, the   *)
(* crowding factor 1/(1+crowding*alpha) is a fixed-point value in units of *)
(* 1/FactorScale, the crowding kernel is a decreasing integer function of  *)
(* the squared distance, and coordinates are integer multiples of half a   *)
(* segment length.  Array contents are 0-based indices as in the program;  *)
(* At/SetAt translate them to the 1-based positions of TLA+ sequences.     *)
(***************************************************************************)
EXTENDS Integers, Sequences, FiniteSets, TLC

(* ------------------------------ bounds -------------------------------- *)
MaxStarch == 3
MaxCells == 4
MaxSpores == 2
MaxTau == 1
MaxEndTime == 4
DefaultCapacity == 2
MaxSelectCells == 2
MaxSelectTotal == 3
MaxAppends == 5
MaxInitCapacity == 2
MaxColumns == 2
MaxValue == 2
MaxAmount == 10
MaxCoefficient == 3
MaxRate == 2
MaxAlpha == 2
MaxThreshold == 2
MaxParam == 3
MaxRows == 2
MaxOldFactor == 1
MaxTransferCells == 3
MaxDivIVA == 3
MaxDen == 2

(* ------------------------- program constants -------------------------- *)
resize_factor == 2
PartitionSize == 2
SegmentLength == 2
FactorScale == 16
CrowdingAlpha == 1
InitialSproutDivIVA == 2
BindingGrowth == 1

NoneVal == -1
NoneState == "None"

(* ------------------------------ helpers ------------------------------- *)
(* A function over 1..n as a sequence value (a numpy array read out).     *)
AsSeq(f) == f \o <<>>

At(s, i) == s[i + 1]

SetAt(s, i, v) == [s EXCEPT ![i + 1] = v]

Zeros(n) == AsSeq([i \in 1..n |-> 0])

Max2(a, b) == IF a >= b THEN a ELSE b

RECURSIVE SumSeq(_)
SumSeq(s) == IF s = <<>> THEN 0 ELSE s[1] + SumSeq(Tail(s))

RECURSIVE Flatten(_)
Flatten(rows) == IF rows = <<>> THEN <<>> ELSE rows[1] \o Flatten(Tail(rows))

SeqRange(s) == {s[i] : i \in 1..Len(s)}

RemoveFirst(s, v) ==
    LET hits == {i \in 1..Len(s) : s[i] = v}
        k == CHOOSE i \in hits : \A j \in hits : i <= j
    IN SubSeq(s, 1, k - 1) \o SubSeq(s, k + 1, Len(s))

Ok(v) == [val |-> v, ok |-> TRUE]

Fail(v) == [val |-> v, ok |-> FALSE]

(* --------------------------- DynamicArray ----------------------------- *)
DynamicArray(capacity) ==
    [arr |-> Zeros(capacity), row_size |-> 0, capacity |-> capacity]

active(d) == SubSeq(d.arr, 1, d.row_size)

(* Faulty variant: the doubled array does not receive the old contents.   *)
DynamicArray_resize_fresh(d) ==
    LET new_capacity == d.capacity * resize_factor
    IN  Ok([d EXCEPT !.capacity = new_capacity, !.arr = Zeros(new_capacity)])

DynamicArray_resize(d) ==
    LET new_capacity == d.capacity * resize_factor
    IN  IF Len(d.arr) > new_capacity
        THEN Fail(d)
        ELSE Ok([d EXCEPT !.capacity = new_capacity,
                          !.arr = d.arr \o Zeros(new_capacity - Len(d.arr))])

update_index(d, index, data) ==
    IF index < Len(d.arr) THEN Ok([d EXCEPT !.arr = SetAt(d.arr, index, data)])
    ELSE Fail(d)

DynamicArray_append(d, entry) ==
    LET r == IF d.row_size = d.capacity THEN DynamicArray_resize(d) ELSE Ok(d)
        u == update_index(r.val, r.val.row_size, entry)
    IN  IF ~r.ok THEN r
        ELSE IF ~u.ok THEN u
        ELSE Ok([u.val EXCEPT !.row_size = u.val.row_size + 1])

(* Faulty variant: takes the given numbers as positions of the active    *)
(* view instead of as stored values.                                       *)
batch_remove_by_position(d, values) ==
    LET a == active(d)
        RECURSIVE keep(_)
        keep(i) == IF i > Len(a) THEN <<>>
                   ELSE (IF (i - 1) \in values THEN <<>> ELSE <<a[i]>>) \o keep(i + 1)
        kept == keep(1)
    IN  [arr |-> kept, row_size |-> Len(kept), capacity |-> Len(kept)]

batch_remove(d, values) ==
    LET kept == SelectSeq(active(d), LAMBDA x : x \notin values)
    IN  [arr |-> kept, row_size |-> Len(kept), capacity |-> Len(kept)]

(* --------------------------- SpatialHashing --------------------------- *)
neighbour_offsets ==
    << <<-1, -1>>, <<-1, 0>>, <<-1, 1>>,
       <<0, -1>>,  <<0, 0>>,  <<0, 1>>,
       <<1, -1>>,  <<1, 0>>,  <<1, 1>> >>

get_cell_key(point) ==
    <<point[1] \div PartitionSize, point[2] \div PartitionSize>>

insert(grid, index, center) ==
    LET cell_key == get_cell_key(center)
        g == IF cell_key \in DOMAIN grid THEN grid
             ELSE (cell_key :> DynamicArray(DefaultCapacity)) @@ grid
        r == DynamicArray_append(g[cell_key], index)
    IN  IF r.ok THEN Ok([g EXCEPT ![cell_key] = r.val]) ELSE Fail(g)

RECURSIVE ConcatBuckets(_, _, _)
ConcatBuckets(grid, key, offs) ==
    IF offs = <<>> THEN <<>>
    ELSE LET nb == <<key[1] + offs[1][1], key[2] + offs[1][2]>>
             rest == ConcatBuckets(grid, key, Tail(offs))
         IN  IF nb \in DOMAIN grid THEN active(grid[nb]) \o rest ELSE rest

query(grid, point) ==
    LET key == get_cell_key(point)
        present == {i \in 1..Len(neighbour_offsets) :
                      <<key[1] + neighbour_offsets[i][1],
                        key[2] + neighbour_offsets[i][2]>> \in DOMAIN grid}
    IN  IF present = {} THEN Fail(<<>>)
        ELSE Ok(ConcatBuckets(grid, key, neighbour_offsets))

(* ---------------------------- configuration -------------------------- *)
(* Elements, reactions, states, conditions and events as create_classes   *)
(* builds them: one nutrient consumed by growth, germ-tube and tip growth  *)
(* events, the Fragment event, and a state-switching event with products.  *)
Elements == {"S", "P"}

Reactions ==
    [CONSUME |-> [rate |-> 1, reactants |-> ("S" :> 1), products |-> <<>>],
     CONVERT |-> [rate |-> 1, reactants |-> ("S" :> 2), products |-> ("P" :> 1)]]

ReactionNames == DOMAIN Reactions

States == <<"G1", "G2", "Straight", "Dormant">>

StateIndex(s) == (CHOOSE i \in 1..Len(States) : States[i] = s) - 1

Conditions ==
    << [name |-> "Crowding index", method_name |-> "static",
        parameter |-> "crowding_index", alpha |-> 1, threshold |-> 1],
       [name |-> "split DivIVA threshold", method_name |-> "linear",
        parameter |-> "DivIVA", alpha |-> 1, threshold |-> 1] >>

SWITCH_STRAIGHT == [kind |-> "SwitchState", new_state |-> "Straight"]

SWITCH_DORMANT == [kind |-> "SwitchState", new_state |-> "Dormant"]

GERMTUBE_DIVIVA == [kind |-> "AddDivIVA", amount |-> InitialSproutDivIVA]

TRANSFER_DIVIVA_ALL == [kind |-> "Transfer", num |-> 1, den |-> 1]

CROWDING_INDEX == [kind |-> "CrowdingIndex", condition_index |-> 0, alpha |-> CrowdingAlpha]

FRAGMENT == [kind |-> "Fragment"]

SPROUT_GERMTUBE ==
    [kind |-> "GrowCell", get_neighbours |-> TRUE,
     parent_actions |-> <<>>,
     new_actions |-> <<SWITCH_STRAIGHT, GERMTUBE_DIVIVA, CROWDING_INDEX>>,
     relation_actions |-> <<>>]

GROW_STRAIGHT ==
    [kind |-> "GrowCell", get_neighbours |-> FALSE,
     parent_actions |-> <<>>,
     new_actions |-> <<SWITCH_STRAIGHT, CROWDING_INDEX>>,
     relation_actions |-> <<TRANSFER_DIVIVA_ALL>>]

Events ==
    << [name |-> "Grow first germ tube", ingoing_states |-> {"G1"},
        out_state |-> "G2", conditions_indexes |-> <<>>,
        action |-> SPROUT_GERMTUBE, reaction |-> "CONSUME"],
       [name |-> "Grow normal cell from the tip", ingoing_states |-> {"G1", "Straight"},
        out_state |-> "Dormant", conditions_indexes |-> <<>>,
        action |-> GROW_STRAIGHT, reaction |-> "CONSUME"],
       [name |-> "Fragment a branch into a new colony", ingoing_states |-> {"Dormant"},
        out_state |-> "Dormant", conditions_indexes |-> <<0>>,
        action |-> FRAGMENT, reaction |-> "CONSUME"],
       [name |-> "Switch state", ingoing_states |-> {"G2", "Straight"},
        out_state |-> "G1", conditions_indexes |-> <<0, 1>>,
        action |-> SWITCH_DORMANT, reaction |-> "CONVERT"] >>

NumEvents == Len(Events)

NumConditions == Len(Conditions)

(* State.event_mask_array after all State and Event constructors ran.     *)
add_event_mask(mask, state, event_index) ==
    SetAt(mask, StateIndex(state), SetAt(At(mask, StateIndex(state)), event_index, 1))

RECURSIVE MaskStates(_, _, _)
MaskStates(mask, todo, event_index) ==
    IF todo = {} THEN mask
    ELSE LET s == CHOOSE x \in todo : TRUE
         IN  MaskStates(add_event_mask(mask, s, event_index), todo \ {s}, event_index)

RECURSIVE add_state_mask(_, _)
add_state_mask(mask, e) ==
    IF e = NumEvents THEN mask
    ELSE LET widened == AsSeq([i \in 1..Len(mask) |-> Append(mask[i], 0)])
         IN  add_state_mask(MaskStates(widened, At(Events, e).ingoing_states, e), e + 1)

event_mask_array == add_state_mask(AsSeq([i \in 1..Len(States) |-> <<>>]), 0)

event_mask(state) == At(event_mask_array, StateIndex(state))

Directions == {<<SegmentLength, 0>>, <<0, SegmentLength>>, <<0 - SegmentLength, 0>>}

(* ------------------------------- state -------------------------------- *)
VARIABLES
    amount,                        \* Element.amount per element
    propensity,                    \* Reaction.propensity per reaction
    cells,                         \* Cell.instances: state, parent, children, colony_index
    center_point_array,            \* populated rows of Cell.center_point_array
    end_point_array,               \* populated rows of Cell.end_point_array
    age_array,                     \* populated prefix of Cell.age_array
    crowding_index_array,          \* populated prefix of Cell.crowding_index_array
    DivIVA_array,                  \* populated prefix of Cell.DivIVA_array
    cell_mask_array,               \* populated rows of State.cell_mask_array
    cell_condition_factor_array,   \* populated rows of Condition.cell_condition_factor_array
    event_propensities_array,      \* populated rows of Event.event_propensities_array
    colonies,                      \* Colony.instances: root, cell_indexes, cell_grid
    cache,                         \* CollectValidNeighbours class-level caches
    err,                           \* the exception that ended the run, or "none"
    end_time, run_time, tau, total_propensity, total_events,
    pc,                            \* position of GillespieSimulator.run
    end_condition,                 \* argument of _end_of_simulation
    end_calls,                     \* calls of _end_of_simulation
    log_calls,                     \* calls of _log_data
    selected,                      \* (cell_index, event_index) of the last _execute_event
    draw,                          \* r of the last random_cell_event_index
    tick_start,                    \* history: values at the start of the current tick
    detached,                      \* harness: branch removed from a colony, not yet re-added
    query_result,                  \* harness: last SpatialHashing.query call and its result
    darr,                          \* harness: a DynamicArray or Dynamic2DArray under test
    appended,                      \* history: the entries appended to darr, in order
    call                           \* harness: the last call made on its own, with its arguments and result

worldVars == <<amount, cells, center_point_array, end_point_array, age_array,
               crowding_index_array, DivIVA_array, cell_mask_array,
               cell_condition_factor_array, event_propensities_array,
               colonies, cache, err>>

driverVars == <<propensity, end_time, run_time, tau, total_propensity, total_events,
                pc, end_condition, end_calls, log_calls, selected, draw, tick_start>>

driverRest == <<propensity, end_time, run_time, tau, total_propensity, total_events,
                end_condition, end_calls, log_calls, selected, draw, tick_start>>

auxVars == <<detached, query_result, darr, appended, call>>

vars == <<worldVars, driverVars, auxVars>>

(* The mutable program state as one value, threaded through the calls of  *)
(* one handler; once err is set the remaining calls are skipped, as after  *)
(* a raised exception.                                                     *)
World ==
    [amount |-> amount, cells |-> cells,
     center_point_array |-> center_point_array, end_point_array |-> end_point_array,
     age_array |-> age_array, crowding_index_array |-> crowding_index_array,
     DivIVA_array |-> DivIVA_array, cell_mask_array |-> cell_mask_array,
     cell_condition_factor_array |-> cell_condition_factor_array,
     event_propensities_array |-> event_propensities_array,
     colonies |-> colonies, cache |-> cache, err |-> err]

Commit(w) ==
    /\ amount' = w.amount
    /\ cells' = w.cells
    /\ center_point_array' = w.center_point_array
    /\ end_point_array' = w.end_point_array
    /\ age_array' = w.age_array
    /\ crowding_index_array' = w.crowding_index_array
    /\ DivIVA_array' = w.DivIVA_array
    /\ cell_mask_array' = w.cell_mask_array
    /\ cell_condition_factor_array' = w.cell_condition_factor_array
    /\ event_propensities_array' = w.event_propensities_array
    /\ colonies' = w.colonies
    /\ cache' = w.cache
    /\ err' = w.err

Raise(w, exception) == [w EXCEPT !.err = exception]

(* ------------------------------ Cell ----------------------------------- *)
extend_matrices(w) ==
    [w EXCEPT !.age_array = Append(@, 0),
              !.crowding_index_array = Append(@, 0),
              !.DivIVA_array = Append(@, 0)]

Cell(w, center_position, end_position, parent, state) ==
    extend_matrices(
        [w EXCEPT !.cells = Append(@, [state |-> state, parent |-> parent,
                                       children |-> <<>>, colony_index |-> NoneVal]),
                  !.center_point_array = Append(@, center_position),
                  !.end_point_array = Append(@, end_position)])

create_root_cell(w, position, start_state) ==
    Cell(w, position, position, NoneVal, start_state)

link_child(w, parent, child) ==
    [w EXCEPT !.cells[parent + 1].children = Append(@, child)]

(* ------------------------------ Colony --------------------------------- *)
(* Faulty variant: the cell's colony_index is not set.                   *)
add_cell_unowned(w, colony, cell) ==
    LET a == DynamicArray_append(At(w.colonies, colony).cell_indexes, cell)
        w2 == [w EXCEPT !.colonies[colony + 1].cell_indexes = a.val]
        g == insert(At(w2.colonies, colony).cell_grid, cell, At(w2.center_point_array, cell))
        w3 == [w2 EXCEPT !.colonies[colony + 1].cell_grid = g.val]
    IN  IF w.err # "none" THEN w
        ELSE IF ~a.ok THEN Raise(w, "IndexError")
        ELSE IF ~g.ok THEN Raise(w3, "IndexError")
        ELSE w3

add_cell(w, colony, cell) ==
    LET w1 == [w EXCEPT !.cells[cell + 1].colony_index = colony]
        a == DynamicArray_append(At(w1.colonies, colony).cell_indexes, cell)
        w2 == [w1 EXCEPT !.colonies[colony + 1].cell_indexes = a.val]
        g == insert(At(w2.colonies, colony).cell_grid, cell, At(w2.center_point_array, cell))
        w3 == [w2 EXCEPT !.colonies[colony + 1].cell_grid = g.val]
    IN  IF w.err # "none" THEN w
        ELSE IF ~a.ok THEN Raise(w1, "IndexError")
        ELSE IF ~g.ok THEN Raise(w3, "IndexError")
        ELSE w3

Colony(w, root_cell) ==
    LET w1 == [w EXCEPT !.colonies = Append(@, [root |-> root_cell,
                            cell_indexes |-> DynamicArray(DefaultCapacity),
                            cell_grid |-> <<>>])]
    IN  IF w.err # "none" THEN w ELSE add_cell(w1, Len(w.colonies), root_cell)

RECURSIVE add_branch(_, _, _)
add_branch(w, colony, branch) ==
    IF branch = <<>> \/ w.err # "none" THEN w
    ELSE add_branch(add_cell(w, colony, branch[1]), colony, Tail(branch))

(* key_group of remove_branch: each bucket key mapped to ONE index, the   *)
(* index of the last branch cell with that key (key_group[key] = index).  *)
RECURSIVE key_group(_, _, _)
key_group(w, branch, group) ==
    IF branch = <<>> THEN group
    ELSE LET key == get_cell_key(At(w.center_point_array, branch[1]))
             hit == {i \in 1..Len(group) : group[i][1] = key}
             g == IF hit = {} THEN Append(group, <<key, branch[1]>>)
                  ELSE AsSeq([i \in 1..Len(group) |->
                            IF i \in hit THEN <<key, branch[1]>> ELSE group[i]])
         IN  key_group(w, Tail(branch), g)

RECURSIVE RemoveFromBuckets(_, _, _)
RemoveFromBuckets(w, colony, group) ==
    IF group = <<>> \/ w.err # "none" THEN w
    ELSE LET grid_key == group[1][1]
             remove_inds == group[1][2]
             grid == At(w.colonies, colony).cell_grid
         IN  IF grid_key \notin DOMAIN grid THEN Raise(w, "KeyError")
             ELSE RemoveFromBuckets(
                     [w EXCEPT !.colonies[colony + 1].cell_grid[grid_key] =
                                   batch_remove(@, {remove_inds})],
                     colony, Tail(group))

remove_branch(w, colony, branch) ==
    LET w1 == [w EXCEPT !.colonies[colony + 1].cell_indexes =
                            batch_remove(@, SeqRange(branch))]
    IN  IF w.err # "none" THEN w
        ELSE RemoveFromBuckets(w1, colony, key_group(w, branch, <<>>))

(* ----------------------------- Reaction -------------------------------- *)
RECURSIVE Factorial(_)
Factorial(n) == IF n <= 1 THEN 1 ELSE n * Factorial(n - 1)

RECURSIVE FallingProduct(_, _)
FallingProduct(n, k) == IF k = 0 THEN 1 ELSE n * FallingProduct(n - 1, k - 1)

(* Faulty variant: counts ordered selections, without dividing by the     *)
(* factorial of the coefficient.                                           *)
ReactantCount_ordered(n, coefficient) == FallingProduct(n, coefficient)

(* Faulty variant: pairs are counted with repetition, n(n+1)/2.          *)
ReactantCount_repeated(n, coefficient) ==
    IF coefficient = 1 THEN n
    ELSE IF coefficient = 2 THEN (n * (n + 1)) \div 2
    ELSE FallingProduct(n, coefficient) \div Factorial(coefficient)

ReactantCount(n, coefficient) ==
    IF coefficient = 1 THEN n
    ELSE IF coefficient = 2 THEN (n * (n - 1)) \div 2
    ELSE FallingProduct(n, coefficient) \div Factorial(coefficient)

RECURSIVE calc_reactorial_count(_, _, _)
calc_reactorial_count(am, reactants, todo) ==
    IF todo = {} THEN 1
    ELSE LET element == CHOOSE x \in todo : TRUE
         IN  ReactantCount(am[element], reactants[element])
               * calc_reactorial_count(am, reactants, todo \ {element})

Reaction_propensity(rate, reactants, am) ==
    rate * calc_reactorial_count(am, reactants, DOMAIN reactants)

calc_propensity(am, reaction) ==
    Reaction_propensity(Reactions[reaction].rate, Reactions[reaction].reactants, am)

(* Faulty variant: the reactants are not used up, only the products are  *)
(* added.                                                                  *)
react_catalytic(w, reaction) ==
    LET products == Reactions[reaction].products
        added == [x \in Elements |->
                      IF x \in DOMAIN products THEN w.amount[x] + products[x]
                      ELSE w.amount[x]]
    IN  IF w.err # "none" THEN w ELSE [w EXCEPT !.amount = added]

(* Faulty variant: the roles are swapped, products are taken and         *)
(* reactants are given back.                                               *)
react_swapped(w, reaction) ==
    LET reactants == Reactions[reaction].products
        products == Reactions[reaction].reactants
        reduced == [x \in Elements |->
                      IF x \in DOMAIN reactants THEN w.amount[x] - reactants[x]
                      ELSE w.amount[x]]
        added == [x \in Elements |->
                      IF x \in DOMAIN products THEN reduced[x] + products[x]
                      ELSE reduced[x]]
    IN  IF w.err # "none" THEN w ELSE [w EXCEPT !.amount = added]

react(w, reaction) ==
    LET reactants == Reactions[reaction].reactants
        products == Reactions[reaction].products
        reduced == [x \in Elements |->
                      IF x \in DOMAIN reactants THEN w.amount[x] - reactants[x]
                      ELSE w.amount[x]]
        added == [x \in Elements |->
                      IF x \in DOMAIN products THEN reduced[x] + products[x]
                      ELSE reduced[x]]
    IN  IF w.err # "none" THEN w ELSE [w EXCEPT !.amount = added]

(* ----------------------------- Condition ------------------------------- *)
RECURSIVE Pow(_, _)
Pow(b, n) == IF n <= 0 THEN 1 ELSE b * Pow(b, n - 1)

ExpBase == 3
RateDen == 2

param_arr(w, condition) ==
    IF condition.parameter = "crowding_index" THEN w.crowding_index_array
    ELSE IF condition.parameter = "DivIVA" THEN w.DivIVA_array
    ELSE w.age_array

(* Faulty variant: the parameter is not cut off at the threshold.         *)
update_condition_factors_uncut(old, param, alpha, threshold, method_name) ==
    LET val == param - threshold
    IN  IF method_name = "constant" THEN alpha
        ELSE IF method_name = "linear" THEN val * alpha
        ELSE IF method_name = "powerlaw" THEN Pow(val, alpha)
        ELSE IF method_name = "exponential" THEN Pow(ExpBase, val * alpha)
        ELSE old

update_condition_factors_turbo(old, param, alpha, threshold, method_name) ==
    LET val == Max2(param - threshold, 0)
    IN  IF method_name = "constant" THEN alpha
        ELSE IF method_name = "linear" THEN val * alpha
        ELSE IF method_name = "powerlaw" THEN Pow(val, alpha)
        ELSE IF method_name = "exponential" THEN Pow(ExpBase, val * alpha)
        ELSE old

Condition_calc_factor(condition, index, factors, param) ==
    IF condition.method_name = "static" THEN factors
    ELSE AsSeq([i \in 1..Len(factors) |->
             SetAt(factors[i], index,
                   update_condition_factors_turbo(
                       At(factors[i], index), param[i],
                       condition.alpha, condition.threshold,
                       condition.method_name))])

calc_factor(w, index) ==
    LET condition == At(Conditions, index)
        param == param_arr(w, condition)
    IN  IF condition.method_name = "static" THEN w
        ELSE [w EXCEPT !.cell_condition_factor_array =
                Condition_calc_factor(condition, index, @, param)]

RECURSIVE update_condition_factors_all(_, _)
update_condition_factors_all(w, index) ==
    IF index = NumConditions THEN w
    ELSE update_condition_factors_all(calc_factor(w, index), index + 1)

(* ------------------------------- Event --------------------------------- *)
RECURSIVE CombineConditions(_, _, _)
CombineConditions(value, factors, indexes) ==
    IF indexes = <<>> THEN value
    ELSE CombineConditions(value * At(factors, indexes[1]), factors, Tail(indexes))

(* Faulty variant: the condition factors are left out of the product.    *)
update_propensity_unconditioned(w, reaction_propensity, event_index) ==
    [w EXCEPT !.event_propensities_array =
        AsSeq([i \in 1..Len(@) |->
            SetAt(@[i], event_index,
                  reaction_propensity[At(Events, event_index).reaction])])]

update_propensity(w, reaction_propensity, event_index) ==
    [w EXCEPT !.event_propensities_array =
        AsSeq([i \in 1..Len(@) |->
            SetAt(@[i], event_index,
                  CombineConditions(reaction_propensity[At(Events, event_index).reaction],
                                    w.cell_condition_factor_array[i],
                                    At(Events, event_index).conditions_indexes))])]

RECURSIVE update_event_propensities(_, _, _)
update_event_propensities(w, reaction_propensity, event_index) ==
    IF event_index = NumEvents THEN w
    ELSE update_event_propensities(update_propensity(w, reaction_propensity, event_index),
                                    reaction_propensity, event_index + 1)

(* Faulty variant: the state mask is not applied.                        *)
state_mask_correction_skipped(w) == w

state_mask_correction(w) ==
    [w EXCEPT !.event_propensities_array =
        AsSeq([i \in 1..Len(@) |->
            AsSeq([e \in 1..Len(@[i]) |-> @[i][e] * w.cell_mask_array[i][e]])])]

get_total_propensity(w) == SumSeq(Flatten(w.event_propensities_array))

RECURSIVE find_index_from(_, _, _, _)
find_index_from(arr, r, i, total) ==
    IF i >= Len(arr) THEN Len(arr) - 1
    ELSE IF r < total + At(arr, i) THEN i
    ELSE find_index_from(arr, r, i + 1, total + At(arr, i))

(* Faulty variant: the first index whose cumulative sum reaches r.        *)
find_index_inclusive(arr, r) == find_index_from(arr, r - 1, 0, 0)

find_index(arr, r) == find_index_from(arr, r, 0, 0)

random_cell_event_index(matrix, r) ==
    LET flat == find_index(Flatten(matrix), r)
    IN  <<flat \div NumEvents, flat % NumEvents>>

(* ------------------------------ Actions -------------------------------- *)
(* Faulty variant: the state is set, the cell's mask row is left as is.   *)
SwitchState_update_unmasked(w, new_state, cell) ==
    IF w.err # "none" THEN w
    ELSE [w EXCEPT !.cells[cell + 1].state = new_state]

SwitchState_update(w, new_state, cell) ==
    IF w.err # "none" THEN w
    ELSE IF cell >= Len(w.cell_mask_array)
         THEN Raise([w EXCEPT !.cells[cell + 1].state = new_state], "IndexError")
    ELSE [w EXCEPT !.cells[cell + 1].state = new_state,
                   !.cell_mask_array[cell + 1] = event_mask(new_state)]

AddDivIVA_update(w, a, cell) ==
    IF w.err # "none" THEN w
    ELSE [w EXCEPT !.DivIVA_array[cell + 1] = @ + a.amount]

(* Faulty variant: the recipient gains the amount, the donor keeps it.   *)
Transfer_update_copied(w, a, donor_cell, recipient_cell) ==
    LET transfer_amount == (At(w.DivIVA_array, donor_cell) * a.num) \div a.den
    IN  IF w.err # "none" THEN w
        ELSE [w EXCEPT !.DivIVA_array[recipient_cell + 1] = @ + transfer_amount]

Transfer_update(w, a, donor_cell, recipient_cell) ==
    LET transfer_amount == (At(w.DivIVA_array, donor_cell) * a.num) \div a.den
        w1 == [w EXCEPT !.DivIVA_array[donor_cell + 1] = @ - transfer_amount]
    IN  IF w.err # "none" THEN w
        ELSE [w1 EXCEPT !.DivIVA_array[recipient_cell + 1] = @ + transfer_amount]

(* Squared distance; compute_valid_neighbours keeps dist^2 <= max_dist^2.  *)
DistSquared(p, q) == (p[1] - q[1]) * (p[1] - q[1]) + (p[2] - q[2]) * (p[2] - q[2])

compute_valid_neighbours(w, cell_center, neighbour_indexes, max_dist) ==
    LET valid == SelectSeq(neighbour_indexes,
                    LAMBDA n : DistSquared(At(w.center_point_array, n), cell_center)
                                  <= max_dist * max_dist)
    IN  [inds |-> valid,
         dists |-> AsSeq([i \in 1..Len(valid) |->
                      DistSquared(At(w.center_point_array, valid[i]), cell_center)])]

CollectValidNeighbours_update(w, cell) ==
    LET colony == At(w.cells, cell).colony_index
        q == query(At(w.colonies, colony).cell_grid, At(w.center_point_array, cell))
        v == compute_valid_neighbours(w, At(w.center_point_array, cell), q.val, PartitionSize)
    IN  IF w.err # "none" THEN w
        ELSE IF colony = NoneVal THEN Raise(w, "TypeError")
        ELSE IF ~q.ok THEN Raise(w, "ValueError")
        ELSE [w EXCEPT !.cache = [valid |-> TRUE,
                                  neighbour_indexes_cache |-> v.inds,
                                  distances_cache |-> v.dists]]

(* exp(-distance / steepness) * spacing, on the squared distance.          *)
calc_base_crowding_index(dist_squared) ==
    IF dist_squared = 0 THEN 4
    ELSE IF dist_squared <= 1 THEN 3
    ELSE IF dist_squared <= 2 THEN 2
    ELSE 1

(* Faulty variant: the neighbours gain their values, the cell gains       *)
(* nothing.                                                                *)
RECURSIVE add_crowding_one_sided(_, _, _, _)
add_crowding_one_sided(crowding, cell_idx, neighbour_indexes, crowding_values) ==
    IF neighbour_indexes = <<>> THEN crowding
    ELSE add_crowding_one_sided(
            [crowding EXCEPT ![neighbour_indexes[1] + 1] = @ + crowding_values[1]],
            cell_idx, Tail(neighbour_indexes), Tail(crowding_values))

RECURSIVE add_crowding(_, _, _, _)
add_crowding(crowding, cell_idx, neighbour_indexes, crowding_values) ==
    IF neighbour_indexes = <<>> THEN crowding
    ELSE LET c1 == [crowding EXCEPT ![neighbour_indexes[1] + 1] = @ + crowding_values[1]]
             c2 == [c1 EXCEPT ![cell_idx + 1] = @ + crowding_values[1]]
         IN  add_crowding(c2, cell_idx, Tail(neighbour_indexes), Tail(crowding_values))

calc_crowding_factor(crowding, alpha) == FactorScale \div (1 + crowding * alpha)

set_condition_factor(w, a, cell, neighbour_indexes) ==
    LET touched == SeqRange(neighbour_indexes)
        f1 == AsSeq([i \in 1..Len(w.cell_condition_factor_array) |->
                 IF (i - 1) \in touched
                 THEN SetAt(w.cell_condition_factor_array[i], a.condition_index,
                            calc_crowding_factor(w.crowding_index_array[i], a.alpha))
                 ELSE w.cell_condition_factor_array[i]])
    IN  [w EXCEPT !.cell_condition_factor_array =
            [f1 EXCEPT ![cell + 1] =
                SetAt(@, a.condition_index,
                      calc_crowding_factor(At(w.crowding_index_array, cell), a.alpha))]]

CrowdingIndex_update(w, a, cell) ==
    LET neighbour_indexes == w.cache.neighbour_indexes_cache
        distances == w.cache.distances_cache
        crowding_values == AsSeq([i \in 1..Len(distances) |-> calc_base_crowding_index(distances[i])])
        w1 == [w EXCEPT !.crowding_index_array =
                  add_crowding(@, cell, neighbour_indexes, crowding_values)]
    IN  IF w.err # "none" THEN w
        ELSE IF ~w.cache.valid THEN Raise(w, "TypeError")
        ELSE set_condition_factor(w1, a, cell, neighbour_indexes)

(* ------------------------------ Fragment ------------------------------- *)
split_from_parent(w, cell) ==
    LET parent == At(w.cells, cell).parent
    IN  IF w.err # "none" THEN w
        ELSE IF parent = NoneVal THEN Raise(w, "AttributeError")
        ELSE IF cell \notin SeqRange(At(w.cells, parent).children) THEN Raise(w, "ValueError")
        ELSE [w EXCEPT !.cells[parent + 1].children = RemoveFirst(@, cell),
                       !.cells[cell + 1].parent = NoneVal]

RECURSIVE form_branch(_, _)
RECURSIVE form_branch_children(_, _)
form_branch(cs, cell) == <<cell>> \o form_branch_children(cs, At(cs, cell).children)

form_branch_children(cs, children) ==
    IF children = <<>> THEN <<>>
    ELSE form_branch(cs, children[1]) \o form_branch_children(cs, Tail(children))

(* The loop body calls CrowdingIndex.get_valid_neighbours, which the class *)
(* CrowdingIndex does not define: the first iteration raises.              *)
remove_crowding(w, branch) ==
    IF w.err # "none" \/ branch = <<>> THEN w ELSE Raise(w, "AttributeError")

full_remove_branch_from_colony(w, cell, branch) ==
    LET old_colony == At(w.cells, cell).colony_index
    IN  remove_branch(remove_crowding(w, branch), old_colony, branch)

Fragment_update(w, cell) ==
    LET w1 == split_from_parent(w, cell)
        branch == form_branch(w1.cells, cell)
        w2 == full_remove_branch_from_colony(w1, cell, branch)
        w3 == Colony(w2, cell)
    IN  IF w1.err # "none" THEN w1
        ELSE IF w2.err # "none" THEN w2
        ELSE add_branch(w3, Len(w2.colonies), Tail(branch))

(* ------------------------------ GrowCell ------------------------------- *)
CellAction_update(w, a, cell) ==
    IF a.kind = "SwitchState" THEN SwitchState_update(w, a.new_state, cell)
    ELSE IF a.kind = "AddDivIVA" THEN AddDivIVA_update(w, a, cell)
    ELSE IF a.kind = "CrowdingIndex" THEN CrowdingIndex_update(w, a, cell)
    ELSE IF a.kind = "Fragment" THEN Fragment_update(w, cell)
    ELSE Raise(w, "NotImplementedError")

RECURSIVE RunCellActions(_, _, _)
RunCellActions(w, actions, cell) ==
    IF actions = <<>> \/ w.err # "none" THEN w
    ELSE RunCellActions(CellAction_update(w, actions[1], cell), Tail(actions), cell)

RECURSIVE RunDuoActions(_, _, _, _)
RunDuoActions(w, actions, parent, child) ==
    IF actions = <<>> \/ w.err # "none" THEN w
    ELSE RunDuoActions(Transfer_update(w, actions[1], parent, child),
                       Tail(actions), parent, child)

execute_all_actions(w, a, parent, child) ==
    RunDuoActions(
        RunCellActions(RunCellActions(w, a.parent_actions, parent), a.new_actions, child),
        a.relation_actions, parent, child)

collect_neighbours(w, a, cell) ==
    IF a.get_neighbours THEN CollectValidNeighbours_update(w, cell) ELSE w

(* direction is the displacement of length SegmentLength that the random  *)
(* bend and angular noise select; the tropism bend is 0 (sensitivity 0).   *)
spatial_calculations(w, cell, direction) ==
    LET end == At(w.end_point_array, cell)
    IN  [center |-> <<end[1] + direction[1] \div 2, end[2] + direction[2] \div 2>>,
         end |-> <<end[1] + direction[1], end[2] + direction[2]>>]

create_new_cell(w, parent_cell, direction) ==
    LET pts == spatial_calculations(w, parent_cell, direction)
    IN  IF w.err # "none" THEN w
        ELSE Cell(w, pts.center, pts.end, parent_cell, NoneState)

(* Faulty variant: the child joins the first colony, whatever colony the  *)
(* parent belongs to.                                                      *)
link_new_cell_first_colony(w, parent, child) ==
    IF w.err # "none" THEN w
    ELSE add_cell(link_child(w, parent, child), 0, child)

link_new_cell(w, parent, child) ==
    IF w.err # "none" THEN w
    ELSE IF At(w.cells, parent).colony_index = NoneVal
         THEN Raise(link_child(w, parent, child), "TypeError")
    ELSE add_cell(link_child(w, parent, child), At(w.cells, parent).colony_index, child)

(* Faulty variant: no base row is added to the condition factors.        *)
add_base_partial(w) ==
    IF w.err # "none" THEN w
    ELSE [w EXCEPT !.event_propensities_array = Append(@, Zeros(NumEvents)),
                   !.cell_mask_array = Append(@, Zeros(NumEvents))]

add_base(w) ==
    IF w.err # "none" THEN w
    ELSE [w EXCEPT !.event_propensities_array = Append(@, Zeros(NumEvents)),
                   !.cell_mask_array = Append(@, Zeros(NumEvents)),
                   !.cell_condition_factor_array = Append(@, Zeros(NumConditions))]

GrowCell_update(w, a, cell, direction) ==
    LET new_cell == Len(w.cells)
        w1 == collect_neighbours(w, a, cell)
        w2 == create_new_cell(w1, cell, direction)
        w3 == link_new_cell(w2, cell, new_cell)
        w4 == add_base(w3)
    IN  execute_all_actions(w4, a, cell, new_cell)

Action_update(w, a, cell, direction) ==
    IF w.err # "none" THEN w
    ELSE IF a.kind = "GrowCell" THEN GrowCell_update(w, a, cell, direction)
    ELSE CellAction_update(w, a, cell)

(* Faulty variant: the reaction is not executed.                         *)
Event_update_unreacted(w, event_index, cell, direction) ==
    LET event == At(Events, event_index)
        w2 == Action_update(w, event.action, cell, direction)
    IN  SwitchState_update(w2, event.out_state, cell)

Event_update(w, event_index, cell, direction) ==
    LET event == At(Events, event_index)
        w1 == react(w, event.reaction)
        w2 == Action_update(w1, event.action, cell, direction)
    IN  SwitchState_update(w2, event.out_state, cell)

(* ------------------------------ bootstrap ------------------------------ *)
EmptyWorld ==
    [amount |-> [x \in Elements |-> 0], cells |-> <<>>,
     center_point_array |-> <<>>, end_point_array |-> <<>>,
     age_array |-> <<>>, crowding_index_array |-> <<>>, DivIVA_array |-> <<>>,
     cell_mask_array |-> <<>>, cell_condition_factor_array |-> <<>>,
     event_propensities_array |-> <<>>, colonies |-> <<>>,
     cache |-> [valid |-> FALSE, neighbour_indexes_cache |-> <<>>, distances_cache |-> <<>>],
     err |-> "none"]

RECURSIVE initialize_spores(_, _)
initialize_spores(w, spore_amount) ==
    IF spore_amount = 0 THEN w
    ELSE LET new_root == Len(w.cells)
             w1 == create_root_cell(w, <<0, 0>>, "G1")
             w2 == Colony(w1, new_root)
             w3 == [w2 EXCEPT
                      !.cell_mask_array = Append(@, event_mask(At(w2.cells, new_root).state)),
                      !.cell_condition_factor_array = Append(@, Zeros(NumConditions)),
                      !.event_propensities_array = Append(@, Zeros(NumEvents))]
         IN  initialize_spores(w3, spore_amount - 1)

Members(colony) == active(colony.cell_indexes)

Snapshot(w, events_fired, time) ==
    [amount |-> w.amount,
     cell_count |-> Len(w.cells),
     states |-> AsSeq([i \in 1..Len(w.cells) |-> w.cells[i].state]),
     members |-> AsSeq([i \in 1..Len(w.colonies) |-> Members(w.colonies[i])]),
     age_array |-> w.age_array,
     total_events |-> events_fired,
     run_time |-> time]

Install(w) ==
    /\ amount = w.amount
    /\ cells = w.cells
    /\ center_point_array = w.center_point_array
    /\ end_point_array = w.end_point_array
    /\ age_array = w.age_array
    /\ crowding_index_array = w.crowding_index_array
    /\ DivIVA_array = w.DivIVA_array
    /\ cell_mask_array = w.cell_mask_array
    /\ cell_condition_factor_array = w.cell_condition_factor_array
    /\ event_propensities_array = w.event_propensities_array
    /\ colonies = w.colonies
    /\ cache = w.cache
    /\ err = w.err

Bootstrap(starch, spore_amount) ==
    initialize_spores([EmptyWorld EXCEPT !.amount["S"] = starch], spore_amount)

NoCall == [op |-> "none"]

IdleAux ==
    /\ call = NoCall
    /\ detached = <<>>
    /\ query_result = [called |-> FALSE]
    /\ darr = DynamicArray(0)
    /\ appended = <<>>

(* State after init(): classes created, spores placed, simulator built.    *)
Init ==
    /\ \E starch \in 0..MaxStarch, spore_amount \in 1..MaxSpores :
          Install(Bootstrap(starch, spore_amount))
    /\ end_time \in 0..MaxEndTime
    /\ propensity = [r \in ReactionNames |-> 0]
    /\ run_time = 0
    /\ tau = 0
    /\ total_propensity = 0
    /\ total_events = 0
    /\ pc = "loop"
    /\ end_condition = "none"
    /\ end_calls = 0
    /\ log_calls = 0
    /\ selected = <<NoneVal, NoneVal>>
    /\ draw = NoneVal
    /\ tick_start = Snapshot(World, 0, 0)
    /\ IdleAux

(* --------------------------- GillespieSimulator ------------------------ *)
update_propensities(w, reaction_propensity) ==
    state_mask_correction(
        update_event_propensities(
            update_condition_factors_all(w, 0), reaction_propensity, 0))

(* while self.run_time < self.end_time: self._update_propensities()        *)
Refresh ==
    /\ pc = "loop"
    /\ run_time < end_time
    /\ propensity' = [r \in ReactionNames |-> calc_propensity(amount, r)]
    /\ LET w == update_propensities(World, propensity')
       IN  /\ Commit(w)
           /\ total_propensity' = get_total_propensity(w)
    /\ tick_start' = Snapshot(World, total_events, run_time)
    /\ pc' = "refreshed"
    /\ UNCHANGED <<end_time, run_time, tau, total_events, end_condition,
                   end_calls, log_calls, selected, draw>>
    /\ UNCHANGED auxVars

(* the loop condition is false on entry: run() falls through and returns   *)
LoopExit ==
    /\ pc = "loop"
    /\ ~(run_time < end_time)
    /\ pc' = "returned"
    /\ UNCHANGED <<worldVars, propensity, end_time, run_time, tau, total_propensity,
                   total_events, end_condition, end_calls, log_calls, selected,
                   draw, tick_start>>
    /\ UNCHANGED auxVars

end_of_simulation(condition) ==
    /\ log_calls' = log_calls + 1
    /\ end_calls' = end_calls + 1
    /\ end_condition' = condition

(* Faulty variant: the check for an empty total comes after the time     *)
(* step, so the run ends with the clock already advanced.                  *)
NoReactionsLeft_late ==
    /\ pc = "refreshed"
    /\ total_propensity = 0
    /\ end_of_simulation("No reactions left")
    /\ tau' = 1
    /\ run_time' = run_time + 1
    /\ pc' = "returned"
    /\ UNCHANGED <<worldVars, propensity, end_time, total_propensity,
                   total_events, selected, draw, tick_start>>
    /\ UNCHANGED auxVars

NoReactionsLeft ==
    /\ pc = "refreshed"
    /\ total_propensity = 0
    /\ end_of_simulation("No reactions left")
    /\ pc' = "returned"
    /\ UNCHANGED <<worldVars, propensity, end_time, run_time, tau, total_propensity,
                   total_events, selected, draw, tick_start>>
    /\ UNCHANGED auxVars

(* Faulty variant: ages are not advanced.                                *)
increase_age_over_time_frozen(ages, time_step) == ages

(* Faulty variant: only the first two cells age.                         *)
increase_age_over_time_eldest(ages, time_step) ==
    AsSeq([i \in 1..Len(ages) |-> IF i <= 2 THEN ages[i] + time_step ELSE ages[i]])

increase_age_over_time(ages, time_step) == AsSeq([i \in 1..Len(ages) |-> ages[i] + time_step])

increase_polarisome_over_time(quantity, time_step) ==
    AsSeq([i \in 1..Len(quantity) |-> quantity[i] * Pow(BindingGrowth, time_step)])

(* _update_time_increment and _increment_continuous_factors                *)
TimeIncrement ==
    /\ pc = "refreshed"
    /\ total_propensity # 0
    /\ \E step \in 1..MaxTau :
          /\ tau' = step
          /\ run_time' = run_time + step
          /\ age_array' = increase_age_over_time(age_array, step)
          /\ DivIVA_array' = increase_polarisome_over_time(DivIVA_array, step)
    /\ pc' = "advanced"
    /\ UNCHANGED <<amount, cells, center_point_array, end_point_array,
                   crowding_index_array, cell_mask_array, cell_condition_factor_array,
                   event_propensities_array, colonies, cache, err,
                   propensity, end_time, total_propensity, total_events, end_condition,
                   end_calls, log_calls, selected, draw, tick_start>>
    /\ UNCHANGED auxVars

EndTimeReached ==
    /\ pc = "advanced"
    /\ run_time >= end_time
    /\ end_of_simulation("End time reached")
    /\ pc' = "returned"
    /\ UNCHANGED <<worldVars, propensity, end_time, run_time, tau, total_propensity,
                   total_events, selected, draw, tick_start>>
    /\ UNCHANGED auxVars

(* _execute_event followed by _log_data; an exception raised by the event  *)
(* leaves run() with whatever the handler had already changed.             *)
ExecuteEvent ==
    /\ pc = "advanced"
    /\ run_time < end_time
    /\ \E r \in 0..(total_propensity - 1), direction \in Directions :
          LET pick == random_cell_event_index(event_propensities_array, r)
              w == Event_update(World, pick[2], pick[1], direction)
          IN  /\ Len(w.cells) <= MaxCells
              /\ Commit(w)
              /\ selected' = pick
              /\ draw' = r
              /\ IF w.err = "none"
                 THEN /\ total_events' = total_events + 1
                      /\ log_calls' = log_calls + 1
                      /\ pc' = "loop"
                 ELSE /\ pc' = "error"
                      /\ UNCHANGED <<total_events, log_calls>>
    /\ UNCHANGED <<propensity, end_time, run_time, tau, total_propensity,
                   end_condition, end_calls, tick_start>>
    /\ UNCHANGED auxVars

Next ==
    \/ Refresh
    \/ LoopExit
    \/ NoReactionsLeft
    \/ TimeIncrement
    \/ EndTimeReached
    \/ ExecuteEvent

Spec == Init /\ [][Next]_vars

(* run() is one sequential loop that does not pause: from every position  *)
(* inside the loop it goes on to another position. Every step of Next      *)
(* changes pc, so the condition is put on pc alone. A run cut off by the   *)
(* cap on the number of cells is not a run of the program.                 *)
Positions == {"loop", "refreshed", "advanced", "returned", "error"}

RunStep == pc \in {"loop", "refreshed", "advanced"} /\ pc' \in Positions \ {pc}

SpecLive == Init /\ [][Next]_vars /\ WF_pc(RunStep)

(* ------------------- weighted selection on its own --------------------- *)
(* Event.random_cell_event_index applied to arbitrary propensity matrices  *)
(* with positive total and to every draw r in [0, total).                  *)
IdleDriver ==
    /\ end_time = 0
    /\ propensity = [r \in ReactionNames |-> 0]
    /\ run_time = 0
    /\ tau = 0
    /\ total_events = 0
    /\ end_condition = "none"
    /\ end_calls = 0
    /\ log_calls = 0
    /\ selected = <<NoneVal, NoneVal>>
    /\ draw = NoneVal

RECURSIVE SelectFlat(_, _)
SelectFlat(len, budget) ==
    IF len = 0 THEN {<<>>}
    ELSE UNION {{<<v>> \o rest : rest \in SelectFlat(len - 1, budget - v)} : v \in 0..budget}

SelectMatrices ==
    UNION {{AsSeq([c \in 1..n |-> SubSeq(flat, (c - 1) * NumEvents + 1, c * NumEvents)]) :
                flat \in SelectFlat(n * NumEvents, MaxSelectTotal)} :
           n \in 1..MaxSelectCells}

InitSelect ==
    /\ \E matrix \in SelectMatrices :
          /\ Install([EmptyWorld EXCEPT !.event_propensities_array = matrix])
          /\ total_propensity = get_total_propensity([event_propensities_array |-> matrix])
    /\ total_propensity > 0
    /\ IdleDriver
    /\ pc = "select"
    /\ tick_start = Snapshot(World, 0, 0)
    /\ IdleAux

SelectDraw ==
    /\ pc = "select"
    /\ \E r \in 0..(total_propensity - 1) :
          /\ draw' = r
          /\ selected' = random_cell_event_index(event_propensities_array, r)
    /\ pc' = "selected"
    /\ UNCHANGED <<worldVars, propensity, end_time, run_time, tau, total_propensity,
                   total_events, end_condition, end_calls, log_calls, tick_start>>
    /\ UNCHANGED auxVars

NextSelect == SelectDraw

SpecSelect == InitSelect /\ [][NextSelect]_vars

(* --------------------- Colony and SpatialHashing API ------------------- *)
(* The calls the program makes on Colony and SpatialHashing, issued one at *)
(* a time: a cell is created and added to its parent's colony (as GrowCell *)
(* does), a subtree is detached and removed from its colony, the detached  *)
(* subtree is given a new colony (as Fragment does), and last a point is   *)
(* queried.                                                                *)
QueryPoints == {<<0, 0>>, <<-1, 0>>, <<3, 1>>, <<-3, -3>>, <<5, 5>>}

InitColony ==
    /\ \E spore_amount \in 1..MaxSpores : Install(Bootstrap(0, spore_amount))
    /\ IdleDriver
    /\ total_propensity = 0
    /\ pc = "api"
    /\ tick_start = Snapshot(World, 0, 0)
    /\ IdleAux

ApiFinish(w) ==
    /\ Commit(w)
    /\ pc' = IF w.err = "none" THEN "api" ELSE "error"
    /\ UNCHANGED <<driverRest, darr, appended, call>>

ApiAddCell ==
    /\ pc = "api"
    /\ Len(cells) < MaxCells
    /\ \E parent \in 0..(Len(cells) - 1), direction \in Directions :
          /\ parent \notin SeqRange(detached)
          /\ ApiFinish(add_base(link_new_cell(create_new_cell(World, parent, direction),
                                              parent, Len(cells))))
    /\ UNCHANGED <<detached, query_result>>

ApiRemoveBranch ==
    /\ pc = "api"
    /\ detached = <<>>
    /\ \E cell \in 0..(Len(cells) - 1) :
          /\ At(cells, cell).parent # NoneVal
          /\ LET w1 == split_from_parent(World, cell)
                 branch == form_branch(w1.cells, cell)
             IN  /\ ApiFinish(remove_branch(w1, At(cells, cell).colony_index, branch))
                 /\ detached' = branch
    /\ UNCHANGED query_result

ApiNewColony ==
    /\ pc = "api"
    /\ detached # <<>>
    /\ ApiFinish(add_branch(Colony(World, detached[1]), Len(colonies), Tail(detached)))
    /\ detached' = <<>>
    /\ UNCHANGED query_result

ApiQuery ==
    /\ pc = "api"
    /\ \E colony \in 0..(Len(colonies) - 1), point \in QueryPoints :
          LET q == query(At(colonies, colony).cell_grid, point)
          IN  query_result' = [called |-> TRUE, colony |-> colony, point |-> point,
                               ok |-> q.ok, val |-> q.val]
    /\ pc' = "queried"
    /\ UNCHANGED <<worldVars, driverRest, detached, darr, appended, call>>

(* remove_branch called on a colony with one cell that is not among its    *)
(* members (a cell of another colony, or one already removed).             *)
ApiRemoveNonMember ==
    /\ pc = "api"
    /\ \E colony \in 0..(Len(colonies) - 1), cell \in 0..(Len(cells) - 1) :
          /\ cell \notin SeqRange(Members(At(colonies, colony)))
          /\ LET w == remove_branch(World, colony, <<cell>>)
             IN  /\ Commit(w)
                 /\ call' = [op |-> "remove_branch", colony |-> colony,
                             cell |-> cell, err |-> w.err,
                             before |-> At(colonies, colony)]
    /\ pc' = "removed"
    /\ UNCHANGED <<driverRest, detached, query_result, darr, appended>>

(* The neighbours of a cell are collected and the crowding action is run   *)
(* on it, as the actions of a growth event do for its new cell.            *)
ApiCrowdingIndex ==
    /\ pc = "api"
    /\ \E cell \in 0..(Len(cells) - 1) :
          LET w1 == CollectValidNeighbours_update(World, cell)
              w2 == CrowdingIndex_update(w1, CROWDING_INDEX, cell)
          IN  /\ Commit(w2)
              /\ call' = [op |-> "CrowdingIndex.update", cell |-> cell,
                          collected |-> (w1.err = "none"),
                          neighbours |-> w1.cache.neighbour_indexes_cache,
                          before |-> crowding_index_array, err |-> w2.err]
    /\ pc' = "crowded"
    /\ UNCHANGED <<driverRest, detached, query_result, darr, appended>>

NextColony ==
    \/ ApiAddCell
    \/ ApiRemoveBranch
    \/ ApiNewColony
    \/ ApiQuery
    \/ ApiRemoveNonMember
    \/ ApiCrowdingIndex

SpecColony == InitColony /\ [][NextColony]_vars

(* ----------------------- growable arrays on their own ------------------ *)
Dynamic2DArray(capacity_rows, capacity_columns) ==
    [arr |-> AsSeq([i \in 1..capacity_rows |-> Zeros(capacity_columns)]),
     row_size |-> 0, capacity |-> capacity_rows,
     crows |-> capacity_rows, ccols |-> capacity_columns]

Dynamic2DArray_resize(d) ==
    LET new_crows == d.crows * resize_factor
    IN  [d EXCEPT !.crows = new_crows,
                  !.arr = AsSeq([i \in 1..new_crows |->
                              IF i <= d.row_size THEN d.arr[i] ELSE Zeros(d.ccols)])]

update_row(d, row_index, data) ==
    IF row_index < Len(d.arr) /\ Len(data) = d.ccols
    THEN Ok([d EXCEPT !.arr = SetAt(d.arr, row_index, data)])
    ELSE Fail(d)

Dynamic2DArray_append(d, entry) ==
    LET r == IF d.row_size = d.crows THEN Dynamic2DArray_resize(d) ELSE d
        u == update_row(r, r.row_size, entry)
    IN  IF ~u.ok THEN u
        ELSE Ok([u.val EXCEPT !.row_size = u.val.row_size + 1])

Broadcast(value, width) == AsSeq([i \in 1..width |-> value])

InitArray ==
    /\ Install(EmptyWorld)
    /\ IdleDriver
    /\ total_propensity = 0
    /\ pc = "array"
    /\ tick_start = Snapshot(World, 0, 0)
    /\ detached = <<>>
    /\ query_result = [called |-> FALSE]
    /\ call = NoCall
    /\ appended = <<>>
    /\ \E capacity \in 1..MaxInitCapacity :
          \/ darr = DynamicArray(capacity)
          \/ \E columns \in 1..MaxColumns : darr = Dynamic2DArray(capacity, columns)

Is2D(d) == "ccols" \in DOMAIN d

ArrayFinish(r, entry) ==
    /\ darr' = r.val
    /\ appended' = IF r.ok THEN Append(appended, entry) ELSE appended
    /\ pc' = IF r.ok THEN "array" ELSE "error"
    /\ UNCHANGED <<worldVars, driverRest, detached, query_result, call>>

Append1D ==
    /\ pc = "array"
    /\ ~Is2D(darr)
    /\ Len(appended) < MaxAppends
    /\ \E entry \in 1..MaxValue : ArrayFinish(DynamicArray_append(darr, entry), entry)

Append2D ==
    /\ pc = "array"
    /\ Is2D(darr)
    /\ Len(appended) < MaxAppends
    /\ \E value \in 1..MaxValue :
          ArrayFinish(Dynamic2DArray_append(darr, Broadcast(value, darr.ccols)),
                      Broadcast(value, darr.ccols))

NextArray ==
    \/ Append1D
    \/ Append2D

SpecArray == InitArray /\ [][NextArray]_vars

(* ------------------- array operations called on their own -------------- *)
(* Appends, add_column and batch_remove in any order on one array; every   *)
(* call is recorded with the populated contents it started from.           *)
add_column(d) ==
    LET ccols == d.ccols + 1
        widened == [d EXCEPT !.ccols = ccols]
    IN  IF Len(d.arr) = d.capacity
        THEN Ok([widened EXCEPT !.arr = AsSeq([i \in 1..d.capacity |-> Append(d.arr[i], 0)])])
        ELSE IF Len(d.arr) = 1
        THEN Ok([widened EXCEPT !.arr = AsSeq([i \in 1..d.capacity |-> Append(d.arr[1], 0)])])
        ELSE Fail(widened)

InitArrayOps ==
    /\ Install(EmptyWorld)
    /\ IdleDriver
    /\ total_propensity = 0
    /\ pc = "ops"
    /\ tick_start = Snapshot(World, 0, 0)
    /\ detached = <<>>
    /\ query_result = [called |-> FALSE]
    /\ call = NoCall
    /\ appended = <<>>
    /\ \E capacity \in 1..MaxInitCapacity :
          \/ darr = DynamicArray(capacity)
          \/ \E columns \in 0..MaxColumns : darr = Dynamic2DArray(capacity, columns)

OpsFinish(r, record) ==
    /\ darr' = r.val
    /\ call' = [record EXCEPT !.ok = r.ok]
    /\ pc' = IF r.ok THEN "ops" ELSE "ops_error"
    /\ UNCHANGED <<worldVars, driverRest, detached, query_result, appended>>

OpsAppend ==
    /\ pc = "ops"
    /\ darr.row_size < MaxAppends
    /\ \E value \in 1..MaxValue :
          LET entry == IF Is2D(darr) THEN Broadcast(value, darr.ccols) ELSE value
              r == IF Is2D(darr) THEN Dynamic2DArray_append(darr, entry)
                   ELSE DynamicArray_append(darr, entry)
          IN  OpsFinish(r, [op |-> "append", before |-> active(darr),
                            entry |-> entry, ok |-> TRUE])

OpsAddColumn ==
    /\ pc = "ops"
    /\ Is2D(darr)
    /\ darr.ccols <= MaxColumns
    /\ OpsFinish(add_column(darr),
                 [op |-> "add_column", before |-> active(darr),
                  width |-> darr.ccols, ok |-> TRUE])

OpsBatchRemove ==
    /\ pc = "ops"
    /\ ~Is2D(darr)
    /\ \E values \in SUBSET (0..MaxValue) :
          OpsFinish(Ok(batch_remove(darr, values)),
                    [op |-> "batch_remove", before |-> active(darr),
                     values |-> values, ok |-> TRUE])

NextArrayOps ==
    \/ OpsAppend
    \/ OpsAddColumn
    \/ OpsBatchRemove

SpecArrayOps == InitArrayOps /\ [][NextArrayOps]_vars

(* ------------------- Reaction.calc_propensity on its own --------------- *)
(* A reaction with its own rate (in units of 1/RateDen) and reactants, and *)
(* the element amounts it reads; the step computes its propensity.         *)
InitReaction ==
    /\ Install(EmptyWorld)
    /\ IdleDriver
    /\ total_propensity = 0
    /\ pc = "reaction"
    /\ tick_start = Snapshot(World, 0, 0)
    /\ detached = <<>>
    /\ query_result = [called |-> FALSE]
    /\ appended = <<>>
    /\ darr = DynamicArray(1)
    /\ \E rate \in 0..MaxRate : \E involved \in SUBSET Elements :
       \E reactants \in [involved -> 1..MaxCoefficient] :
       \E am \in [Elements -> 0..MaxAmount] :
          call = [op |-> "Reaction", rate |-> rate, reactants |-> reactants,
                  amount |-> am]

ReactionCalcPropensity ==
    /\ pc = "reaction"
    /\ call.op = "Reaction"
    /\ call' = [op |-> "calc_propensity", rate |-> call.rate,
                reactants |-> call.reactants, amount |-> call.amount,
                propensity |-> Reaction_propensity(call.rate, call.reactants,
                                                   call.amount)]
    /\ UNCHANGED <<worldVars, driverVars, detached, query_result, darr, appended>>

NextReaction == ReactionCalcPropensity

SpecReaction == InitReaction /\ [][NextReaction]_vars

(* --------------------- Condition.calc_factor on its own ---------------- *)
(* A condition of any method with its own alpha and threshold, the factor  *)
(* matrix of NumConditions columns and the parameter column it reads.      *)
METHOD_MODES == {"constant", "linear", "powerlaw", "exponential"}

InitCondition ==
    /\ Install(EmptyWorld)
    /\ IdleDriver
    /\ total_propensity = 0
    /\ pc = "condition"
    /\ tick_start = Snapshot(World, 0, 0)
    /\ detached = <<>>
    /\ query_result = [called |-> FALSE]
    /\ appended = <<>>
    /\ darr = DynamicArray(1)
    /\ \E method_name \in METHOD_MODES \cup {"static"} :
       \E alpha \in 0..MaxAlpha : \E threshold \in 0..MaxThreshold :
       \E index \in 0..(NumConditions - 1) : \E rows \in 1..MaxRows :
       \E old \in 0..MaxOldFactor : \E param \in [1..rows -> 0..MaxParam] :
          call = [op |-> "Condition",
                  condition |-> [method_name |-> method_name, alpha |-> alpha,
                                 threshold |-> threshold],
                  index |-> index,
                  param |-> AsSeq(param),
                  factors |-> AsSeq([i \in 1..rows |->
                                  AsSeq([c \in 1..NumConditions |-> old])])]

ConditionCalcFactor ==
    /\ pc = "condition"
    /\ call.op = "Condition"
    /\ call' = [op |-> "calc_factor", condition |-> call.condition,
                index |-> call.index, param |-> call.param,
                before |-> call.factors,
                factors |-> Condition_calc_factor(call.condition, call.index,
                                                  call.factors, call.param)]
    /\ UNCHANGED <<worldVars, driverVars, detached, query_result, darr, appended>>

NextCondition == ConditionCalcFactor

SpecCondition == InitCondition /\ [][NextCondition]_vars

(* ------------------------ Transfer.update on its own ------------------- *)
(* A DivIVA array of a few cells, a ratio num/den that the amounts can     *)
(* carry exactly, and two different cells as donor and recipient.          *)
InitTransfer ==
    /\ Install(EmptyWorld)
    /\ IdleDriver
    /\ total_propensity = 0
    /\ pc = "transfer"
    /\ tick_start = Snapshot(World, 0, 0)
    /\ detached = <<>>
    /\ query_result = [called |-> FALSE]
    /\ appended = <<>>
    /\ darr = DynamicArray(1)
    /\ \E n \in 2..MaxTransferCells : \E values \in [1..n -> 0..MaxDivIVA] :
       \E donor \in 0..(n - 1) : \E recipient \in (0..(n - 1)) \ {donor} :
       \E den \in 1..MaxDen : \E num \in 0..den :
          /\ (values[donor + 1] * num) % den = 0
          /\ call = [op |-> "Transfer", donor |-> donor, recipient |-> recipient,
                     num |-> num, den |-> den, DivIVA |-> AsSeq(values)]

TransferUpdate ==
    /\ pc = "transfer"
    /\ call.op = "Transfer"
    /\ LET w == [EmptyWorld EXCEPT !.DivIVA_array = call.DivIVA]
           a == [kind |-> "Transfer", num |-> call.num, den |-> call.den]
           w2 == Transfer_update(w, a, call.donor, call.recipient)
       IN  call' = [op |-> "Transfer.update", donor |-> call.donor,
                    recipient |-> call.recipient, num |-> call.num,
                    den |-> call.den, before |-> call.DivIVA,
                    DivIVA |-> w2.DivIVA_array, err |-> w2.err]
    /\ UNCHANGED <<worldVars, driverVars, detached, query_result, darr, appended>>

NextTransfer == TransferUpdate

SpecTransfer == InitTransfer /\ [][NextTransfer]_vars

(* ---------------------------- CellDataManager -------------------------- *)
(* json.dump writes Python ints and None as they are; the np.int32 entries *)
(* of a member array go through json_serializer and come out as floats.    *)
json_serializer(x) == [float |-> x]

save_array_data(w) ==
    [center |-> w.center_point_array, end |-> w.end_point_array,
     age |-> w.age_array, crowding |-> w.crowding_index_array,
     DivIVA |-> w.DivIVA_array]

save_cell_simulation_data(w) ==
    LET cell_data == AsSeq([i \in 1..Len(w.cells) |->
                        [index |-> i - 1,
                         parent |-> w.cells[i].parent,
                         children |-> w.cells[i].children,
                         state_index |-> StateIndex(w.cells[i].state),
                         colony_index |-> w.cells[i].colony_index]])
        colony_data == AsSeq([k \in 1..Len(w.colonies) |->
                        [index |-> k - 1,
                         root_index |-> w.colonies[k].root,
                         cell_indexes |->
                            AsSeq([m \in 1..Len(Members(w.colonies[k])) |->
                                json_serializer(Members(w.colonies[k])[m])])]])
    IN  IF \E i \in 1..Len(w.cells) : w.cells[i].state = NoneState
        THEN Fail([arrays |-> save_array_data(w), cells |-> <<>>, colonies |-> <<>>])
        ELSE Ok([arrays |-> save_array_data(w), cells |-> cell_data,
                 colonies |-> colony_data])

(* Cell.reset_class and Colony.reset_class, then the arrays as loaded.     *)
load_array_data(w, array_data) ==
    [w EXCEPT !.cells = <<>>, !.colonies = <<>>,
              !.center_point_array = array_data.center,
              !.end_point_array = array_data.end,
              !.age_array = array_data.age,
              !.crowding_index_array = array_data.crowding,
              !.DivIVA_array = array_data.DivIVA]

Cell_load_data(w, cell_data) ==
    LET cell_index == cell_data.index
        parent == cell_data.parent
        new_cell == Len(w.cells)
        w1 == Cell(w, At(w.center_point_array, cell_index),
                   At(w.end_point_array, cell_index), parent,
                   States[cell_data.state_index + 1])
        w2 == [w1 EXCEPT !.cells[new_cell + 1].colony_index = cell_data.colony_index]
    IN  IF w.err # "none" THEN w
        ELSE IF cell_index >= Len(w.center_point_array) THEN Raise(w, "IndexError")
        ELSE IF parent # NoneVal /\ parent >= Len(w.cells) THEN Raise(w, "IndexError")
        ELSE IF parent # NoneVal THEN link_child(w2, parent, new_cell)
        ELSE w2

RECURSIVE load_cell_data(_, _)
load_cell_data(w, cell_data) ==
    IF cell_data = <<>> THEN w
    ELSE load_cell_data(Cell_load_data(w, cell_data[1]), Tail(cell_data))

RECURSIVE load_colony_data(_, _)
load_colony_data(w, colony_data) ==
    IF colony_data = <<>> \/ w.err # "none" THEN w
    ELSE IF colony_data[1].root_index >= Len(w.cells) THEN Raise(w, "IndexError")
    ELSE load_colony_data(Colony(w, colony_data[1].root_index), Tail(colony_data))

RECURSIVE relink_cells_to_colony(_, _)
relink_cells_to_colony(w, cell) ==
    IF cell >= Len(w.cells) \/ w.err # "none" THEN w
    ELSE LET colony == At(w.cells, cell).colony_index
         IN  IF colony = NoneVal THEN Raise(w, "TypeError")
             ELSE IF colony >= Len(w.colonies) THEN Raise(w, "IndexError")
             ELSE relink_cells_to_colony(add_cell(w, colony, cell), cell + 1)

load_all_simulation_data(w, saved) ==
    relink_cells_to_colony(
        load_colony_data(
            load_cell_data(load_array_data(w, saved.arrays), saved.cells),
            saved.colonies),
        0)

(* The driver with a save followed by a load at a tick boundary.           *)
SaveLoad ==
    /\ pc = "loop"
    /\ LET saved == save_cell_simulation_data(World)
           w == IF saved.ok THEN load_all_simulation_data(World, saved.val)
                ELSE Raise(World, "AttributeError")
       IN  /\ Commit(w)
           /\ call' = [op |-> "save_load", saved |-> saved.ok, before |-> World]
    /\ pc' = "loaded"
    /\ UNCHANGED <<driverRest, detached, query_result, darr, appended>>

NextSaveLoad ==
    \/ Next
    \/ SaveLoad

SpecSaveLoad == Init /\ [][NextSaveLoad]_vars

(* ============================== claims ================================= *)
CellIds == 1..Len(cells)

EventIds == 1..NumEvents

RECURSIVE FactorProduct(_, _)
FactorProduct(row, indexes) ==
    IF indexes = <<>> THEN 1
    ELSE row[indexes[Len(indexes)] + 1] * FactorProduct(row, SubSeq(indexes, 1, Len(indexes) - 1))

Legal(state, e) == state \in Events[e].ingoing_states

(* C1: after every propensity refresh, for every cell c and event e,       *)
(* propensity[c,e] = reaction propensity * product of the factors of e's   *)
(* conditions for c * mask[c,e], and mask[c,e] is 1 if c's current state   *)
(* is one of e's ingoing states and 0 otherwise.                           *)
C1_PropensityFormula ==
    pc = "refreshed" =>
        /\ Len(event_propensities_array) = Len(cells)
        /\ Len(cell_mask_array) = Len(cells)
        /\ \A c \in CellIds, e \in EventIds :
              /\ cell_mask_array[c][e] = (IF Legal(cells[c].state, e) THEN 1 ELSE 0)
              /\ event_propensities_array[c][e] =
                    propensity[Events[e].reaction]
                      * FactorProduct(cell_condition_factor_array[c], Events[e].conditions_indexes)
                      * cell_mask_array[c][e]

C1_Witness ==
    /\ pc = "refreshed"
    /\ Len(cells) >= 3
    /\ \E c \in CellIds : event_propensities_array[c][4] > 0
    /\ \E c \in CellIds, e \in EventIds :
          ~Legal(cells[c].state, e) /\ propensity[Events[e].reaction] > 0

(* C2: after the refresh the propensity of every (cell, event) whose cell  *)
(* state is not an ingoing state of the event is 0, also for cells the     *)
(* previous event created, and the event the driver fires is one whose     *)
(* ingoing states contain the state the cell had when it was selected.     *)
C2_MaskingCorrectness ==
    /\ pc \in {"refreshed", "advanced"} =>
          \A c \in CellIds, e \in EventIds :
              ~Legal(cells[c].state, e) => event_propensities_array[c][e] = 0
    /\ (pc \in {"loop", "error"} /\ selected # <<NoneVal, NoneVal>>) =>
          /\ selected[1] + 1 \in 1..tick_start.cell_count
          /\ Legal(tick_start.states[selected[1] + 1], selected[2] + 1)

C2_Witness ==
    /\ pc = "advanced"
    /\ total_events >= 1
    /\ Len(cells) > tick_start.cell_count - 1
    /\ At(cells, Len(cells) - 1).parent # NoneVal
    /\ \E e \in EventIds : At(event_propensities_array, Len(cells) - 1)[e] > 0
    /\ \E e \in EventIds : At(event_propensities_array, Len(cells) - 1)[e] = 0

(* C4: run() returns only through "No reactions left" or "End time         *)
(* reached", for every end_time including end_time <= 0, and the final     *)
(* report/log flush has then been performed exactly once.                  *)
C4_ReturnsOnlyThroughHalts ==
    pc = "returned" =>
        /\ end_condition \in {"No reactions left", "End time reached"}
        /\ end_calls = 1

(* C5: in the tick whose time advance reaches end_time the run ends with   *)
(* "End time reached" before any event is selected or executed: events     *)
(* fired, element amounts, cells, cell states and colony member sets are   *)
(* those of the start of the tick; run_time and every age are advanced by  *)
(* that tick's tau.                                                        *)
C5_EndTimeBeforeFiring ==
    (pc = "returned" /\ end_condition = "End time reached") =>
        /\ total_events = tick_start.total_events
        /\ amount = tick_start.amount
        /\ Len(cells) = tick_start.cell_count
        /\ [i \in CellIds |-> cells[i].state] = tick_start.states
        /\ AsSeq([i \in 1..Len(colonies) |-> Members(colonies[i])]) = tick_start.members
        /\ tau >= 1
        /\ run_time = tick_start.run_time + tau
        /\ run_time >= end_time
        /\ tick_start.run_time < end_time
        /\ age_array = [i \in CellIds |-> tick_start.age_array[i] + tau]

C5_Witness ==
    /\ pc = "returned"
    /\ end_condition = "End time reached"
    /\ total_events >= 1
    /\ Len(cells) >= 2

(* C6: a tick that does not end the run fires exactly one event: the       *)
(* event's reaction is applied exactly once (reactants decreased and       *)
(* products increased by their coefficients), then the action runs, then   *)
(* the cell is switched to the event's outgoing state, and total_events    *)
(* grows by exactly 1, all before the next refresh starts.                 *)
ReactedOnce(before, reaction) ==
    [x \in Elements |->
        before[x]
          - (IF x \in DOMAIN Reactions[reaction].reactants
             THEN Reactions[reaction].reactants[x] ELSE 0)
          + (IF x \in DOMAIN Reactions[reaction].products
             THEN Reactions[reaction].products[x] ELSE 0)]

C6_OneEventPerTick ==
    (pc = "loop" /\ selected # <<NoneVal, NoneVal>>) =>
        LET event == At(Events, selected[2])
        IN  /\ amount = ReactedOnce(tick_start.amount, event.reaction)
            /\ total_events = tick_start.total_events + 1
            /\ At(cells, selected[1]).state = event.out_state
            /\ At(cell_mask_array, selected[1]) = event_mask(event.out_state)
            /\ event.action.kind = "GrowCell" =>
                  /\ Len(cells) = tick_start.cell_count + 1
                  /\ At(cells, Len(cells) - 1).parent = selected[1]
            /\ event.action.kind # "GrowCell" => Len(cells) = tick_start.cell_count

C6_Witness ==
    /\ pc = "loop"
    /\ selected # <<NoneVal, NoneVal>>
    /\ At(Events, selected[2]).reaction = "CONVERT"
    /\ amount["P"] = 1
    /\ total_events >= 2

(* C7: at every tick boundary every cell index occurs exactly once in the  *)
(* member-index array of exactly one colony, that colony is the one the    *)
(* cell's colony_index names, and the colonies' member sets together are   *)
(* the set of all cell indices.                                            *)
Occurrences(s, v) == Cardinality({i \in 1..Len(s) : s[i] = v})

C7_ColonyPartition ==
    /\ \A c \in CellIds :
          /\ cells[c].colony_index + 1 \in 1..Len(colonies)
          /\ \A k \in 1..Len(colonies) :
                Occurrences(Members(colonies[k]), c - 1)
                    = (IF k = cells[c].colony_index + 1 THEN 1 ELSE 0)
    /\ UNION {SeqRange(Members(colonies[k])) : k \in 1..Len(colonies)}
          = {c - 1 : c \in CellIds}

C7_Witness ==
    /\ pc = "loop"
    /\ Len(colonies) >= 2
    /\ Len(cells) >= 4
    /\ \E c \in CellIds : cells[c].colony_index = 1 /\ cells[c].parent # NoneVal

(* C3: for a matrix with total > 0 and a draw 0 <= r < total the selection *)
(* returns divmod(k, number of events) for the smallest row-major index k  *)
(* whose cumulative sum exceeds r; the selected entry is positive, and     *)
(* exactly propensity[c,e] integer draws select (c,e).                     *)
CumulativeSum(flat, k) == SumSeq(SubSeq(flat, 1, k + 1))

SmallestExceeding(flat, r) ==
    CHOOSE k \in 0..(Len(flat) - 1) :
        /\ CumulativeSum(flat, k) > r
        /\ \A j \in 0..(k - 1) : CumulativeSum(flat, j) <= r

C3_WeightedSelection ==
    pc = "selected" =>
        LET flat == Flatten(event_propensities_array)
            k == SmallestExceeding(flat, draw)
        IN  /\ \E j \in 0..(Len(flat) - 1) : CumulativeSum(flat, j) > draw
            /\ selected = <<k \div NumEvents, k % NumEvents>>
            /\ selected[1] \in 0..(Len(event_propensities_array) - 1)
            /\ At(At(event_propensities_array, selected[1]), selected[2]) > 0
            /\ \A c \in 1..Len(event_propensities_array), e \in EventIds :
                  Cardinality({r \in 0..(total_propensity - 1) :
                      random_cell_event_index(event_propensities_array, r) = <<c - 1, e - 1>>})
                    = event_propensities_array[c][e]

C3_Witness ==
    /\ pc = "selected"
    /\ selected[1] = 1
    /\ selected[2] = 2
    /\ At(At(event_propensities_array, 1), 2) = 2
    /\ \E e \in EventIds : At(event_propensities_array, 0)[e] = 0
    /\ draw > 0

(* C8: for every colony, after any sequence of add_cell, add_branch and    *)
(* remove_branch, the indices stored in the buckets of its spatial index   *)
(* are exactly its member indices, each once and in the bucket keyed by    *)
(* its center; after remove_branch no removed cell remains in the member   *)
(* array or in a bucket, and the other members remain in both.             *)
BelongsTo(k) ==
    {c \in 0..(Len(cells) - 1) :
        At(cells, c).colony_index = k /\ c \notin SeqRange(detached)}

InBucket(grid, key, c) ==
    IF key \in DOMAIN grid THEN Occurrences(active(grid[key]), c) ELSE 0

StoredAnywhere(grid, c) ==
    \E key \in DOMAIN grid : Occurrences(active(grid[key]), c) > 0

C8_SpatialIndexMatchesMembers ==
    (pc = "api" /\ err = "none") =>
        \A k \in 0..(Len(colonies) - 1) :
            LET grid == At(colonies, k).cell_grid
                members == Members(At(colonies, k))
            IN  /\ SeqRange(members) = BelongsTo(k)
                /\ \A c \in 0..(Len(cells) - 1) :
                      IF c \in BelongsTo(k)
                      THEN /\ Occurrences(members, c) = 1
                           /\ \A key \in DOMAIN grid :
                                 Occurrences(active(grid[key]), c)
                                   = (IF key = get_cell_key(At(center_point_array, c))
                                      THEN 1 ELSE 0)
                           /\ get_cell_key(At(center_point_array, c)) \in DOMAIN grid
                      ELSE ~StoredAnywhere(grid, c)

(* C9: query(p) returns exactly the indices stored in the nine buckets     *)
(* with keys (kx+dx, ky+dy), dx, dy in {-1,0,1}, (kx,ky) the floor of p    *)
(* over partition_size, for any inserted cells and any point p; so every   *)
(* inserted cell within partition_size of p is returned and no cell whose  *)
(* key differs from p's key by more than 1 in a coordinate.                *)
FloorDiv(a, b) == CHOOSE q \in -(10 * b)..(10 * b) : q * b <= a /\ a < (q + 1) * b

NearKey(key, point) ==
    /\ key[1] - FloorDiv(point[1], PartitionSize) \in {-1, 0, 1}
    /\ key[2] - FloorDiv(point[2], PartitionSize) \in {-1, 0, 1}

C9_QueryNineBuckets ==
    (pc = "queried" /\ query_result.called) =>
        LET grid == At(colonies, query_result.colony).cell_grid
            point == query_result.point
        IN  /\ query_result.ok
            /\ \A c \in 0..(Len(cells) - 1) :
                  Occurrences(query_result.val, c)
                    = Cardinality({key \in DOMAIN grid :
                                     NearKey(key, point) /\ c \in SeqRange(active(grid[key]))})
            /\ \A c \in BelongsTo(query_result.colony) :
                  /\ DistSquared(At(center_point_array, c), point)
                        <= PartitionSize * PartitionSize
                     => c \in SeqRange(query_result.val)
                  /\ ~NearKey(<<FloorDiv(At(center_point_array, c)[1], PartitionSize),
                                FloorDiv(At(center_point_array, c)[2], PartitionSize)>>, point)
                     => c \notin SeqRange(query_result.val)

(* C10: a DynamicArray or Dynamic2DArray created with positive capacity    *)
(* has, after any sequence of appends, as many entries as were appended,   *)
(* the i-th appended value at logical index i (unchanged by every capacity *)
(* doubling), and an active view that is exactly those entries.            *)
C10_AppendKeepsIndices ==
    pc \in {"array", "error"} =>
        /\ pc = "array"
        /\ darr.row_size = Len(appended)
        /\ Len(darr.arr) >= darr.row_size
        /\ active(darr) = appended
        /\ \A i \in 0..(Len(appended) - 1) : At(darr.arr, i) = At(appended, i)

C10_Witness ==
    /\ pc = "array"
    /\ Len(appended) = MaxAppends
    /\ Len(darr.arr) >= 4 * 1
    /\ At(appended, 0) # At(appended, 1)

(* C11: add_column makes every populated row one entry wider, keeps the    *)
(* entries the row had and puts 0 in the new column, in any interleaving   *)
(* with appends, also after appends have doubled the row capacity.         *)
C11_AddColumnKeepsRows ==
    (pc \in {"ops", "ops_error"} /\ call.op = "add_column") =>
        /\ call.ok
        /\ darr.ccols = call.width + 1
        /\ darr.row_size = Len(call.before)
        /\ \A i \in 1..Len(call.before) :
              /\ Len(darr.arr[i]) = call.width + 1
              /\ SubSeq(darr.arr[i], 1, call.width) = call.before[i]
              /\ darr.arr[i][call.width + 1] = 0

(* The positions of a sequence whose entry is not among the given values. *)
KeptPositions(before, values) == {i \in 1..Len(before) : before[i] \notin values}

(* The j-th smallest member of a set of positions.                        *)
NthPosition(K, j) == CHOOSE i \in K : Cardinality({k \in K : k < i}) = j - 1

(* C12 (as the code behaves): batch_remove(values) removes every active    *)
(* entry whose stored value is among the given values, keeps the other     *)
(* entries in their order, and leaves the capacity equal to the new length.*)
C12_BatchRemoveByValue ==
    (pc \in {"ops", "ops_error"} /\ call.op = "batch_remove") =>
        LET K == KeptPositions(call.before, call.values)
        IN  /\ call.ok
            /\ darr.row_size = Cardinality(K)
            /\ darr.capacity = darr.row_size
            /\ Len(darr.arr) = darr.row_size
            /\ \A j \in 1..Cardinality(K) :
                  darr.arr[j] = call.before[NthPosition(K, j)]

C12_Witness ==
    /\ pc = "ops"
    /\ call.op = "batch_remove"
    /\ darr.row_size >= 1
    /\ Len(call.before) - darr.row_size > Cardinality(call.values)
    /\ \E i \in 1..Len(call.before) : \E j \in (i + 1)..Len(call.before) :
          call.before[i] \in call.values /\ call.before[j] \notin call.values

(* C12 (as stated): batch_remove(indices), given valid logical indices,    *)
(* deletes exactly the entries at those positions, keeps the others in     *)
(* order, and shortens the array by the number of distinct indices.        *)
C12_BatchRemoveByIndex ==
    (/\ pc \in {"ops", "ops_error"}
     /\ call.op = "batch_remove"
     /\ call.values \subseteq 0..(Len(call.before) - 1)) =>
        LET K == {i \in 1..Len(call.before) : (i - 1) \notin call.values}
        IN  /\ darr.row_size = Len(call.before) - Cardinality(call.values)
            /\ \A j \in 1..Cardinality(K) :
                  j <= Len(darr.arr) /\ darr.arr[j] = call.before[NthPosition(K, j)]

RECURSIVE ProductOf(_, _)
ProductOf(f, S) ==
    IF S = {} THEN 1
    ELSE LET x == CHOOSE y \in S : TRUE IN f[x] * ProductOf(f, S \ {x})

(* C13: the propensity of a reaction is its rate times, over its           *)
(* reactants, amount*(amount-1)*...*(amount-coefficient+1)/coefficient!;   *)
(* rate 0.5 with coefficient 1 and amount 10 gives 5.0, coefficient 2 and  *)
(* amount 5 gives rate*10; it is never negative, and it is 0 when some     *)
(* reactant's amount is below its coefficient.                             *)
C13_PropensityOfReaction ==
    (pc = "reaction" /\ call.op = "calc_propensity") =>
        LET R == DOMAIN call.reactants
            falling == [e \in R |-> FallingProduct(call.amount[e], call.reactants[e])]
            fact == [e \in R |-> Factorial(call.reactants[e])]
        IN  /\ call.propensity * ProductOf(fact, R) = call.rate * ProductOf(falling, R)
            /\ call.propensity >= 0
            /\ (\E e \in R : call.amount[e] < call.reactants[e]) => call.propensity = 0
            /\ (\A e \in R : call.reactants[e] = 1) =>
                  call.propensity = call.rate * ProductOf([e \in R |-> call.amount[e]], R)
            /\ (call.rate = 1 /\ RateDen = 2 /\ R = {"S"} /\ call.reactants["S"] = 1
                  /\ call.amount["S"] = 10) => call.propensity = 5 * RateDen
            /\ (R = {"S"} /\ call.reactants["S"] = 2 /\ call.amount["S"] = 5) =>
                  call.propensity = call.rate * 10

C13_Witness ==
    /\ pc = "reaction"
    /\ call.op = "calc_propensity"
    /\ call.rate = 1
    /\ DOMAIN call.reactants = {"S", "P"}
    /\ call.reactants["S"] = 3
    /\ call.reactants["P"] = 2
    /\ call.amount["S"] = 5
    /\ call.amount["P"] = 5
    /\ call.propensity = 100

(* C14: calc_factor leaves a static condition's column as it was; it sets  *)
(* a constant condition's column to alpha, and otherwise, with value =     *)
(* max(parameter - threshold, 0) per cell, to value*alpha (linear),        *)
(* value**alpha (powerlaw) or exp(value*alpha) (exponential, to the base   *)
(* ExpBase here); linear with alpha 2, threshold 1 and parameter 3 gives   *)
(* 4; no other condition's column changes.                                 *)
C14_ConditionFactor ==
    (pc = "condition" /\ call.op = "calc_factor") =>
        /\ Len(call.factors) = Len(call.before)
        /\ \A i \in 1..Len(call.before) :
              LET m == call.condition.method_name
                  alpha == call.condition.alpha
                  value == IF call.param[i] > call.condition.threshold
                           THEN call.param[i] - call.condition.threshold ELSE 0
                  new == At(call.factors[i], call.index)
              IN  /\ Len(call.factors[i]) = NumConditions
                  /\ \A c \in 0..(NumConditions - 1) :
                        c # call.index => At(call.factors[i], c) = At(call.before[i], c)
                  /\ m = "static" => new = At(call.before[i], call.index)
                  /\ m = "constant" => new = alpha
                  /\ m = "linear" => new = value * alpha
                  /\ m = "powerlaw" => new = Pow(value, alpha)
                  /\ m = "exponential" => new = Pow(ExpBase, value * alpha)
                  /\ (m = "linear" /\ alpha = 2 /\ call.condition.threshold = 1
                        /\ call.param[i] = 3) => new = 4

C14_Witness ==
    /\ pc = "condition"
    /\ call.op = "calc_factor"
    /\ call.condition = [method_name |-> "linear", alpha |-> 2, threshold |-> 1]
    /\ call.index = 1
    /\ call.param = <<3, 0>>
    /\ call.before = <<<<1, 1>>, <<1, 1>>>>
    /\ call.factors = <<<<1, 4>>, <<1, 0>>>>

(* C15: Transfer.update with ratio rho = num/den takes rho times the       *)
(* donor's amount from the donor and gives it to the recipient: the sum of *)
(* the two is conserved, every other cell keeps its amount, and rho = 1    *)
(* leaves the donor with 0.                                                *)
C15_TransferConserves ==
    (pc = "transfer" /\ call.op = "Transfer.update") =>
        LET d == At(call.before, call.donor)
            r == At(call.before, call.recipient)
            d2 == At(call.DivIVA, call.donor)
            r2 == At(call.DivIVA, call.recipient)
        IN  /\ call.err = "none"
            /\ Len(call.DivIVA) = Len(call.before)
            /\ call.den * (d - d2) = call.num * d
            /\ call.den * (r2 - r) = call.num * d
            /\ d2 + r2 = d + r
            /\ \A c \in 0..(Len(call.before) - 1) :
                  c \notin {call.donor, call.recipient} =>
                      At(call.DivIVA, c) = At(call.before, c)
            /\ call.num = call.den => d2 = 0

C15_Witness ==
    /\ pc = "transfer"
    /\ call.op = "Transfer.update"
    /\ call.num = 1
    /\ call.den = 2
    /\ call.donor = 2
    /\ call.recipient = 0
    /\ call.before = <<1, 3, 2>>
    /\ call.DivIVA = <<2, 3, 1>>

(* C16: remove_branch on a colony, given a cell whose index is not among   *)
(* the colony's members, raises an error instead of returning normally.    *)
C16_RemoveNonMemberRaises ==
    (pc = "removed" /\ call.op = "remove_branch") => call.err # "none"

(* C17: a query on a point with no populated bucket among the nine around  *)
(* it returns the empty index set without raising, and CrowdingIndex       *)
(* update on a cell with zero neighbours finishes without error and leaves *)
(* every cell's crowding value as it was.                                  *)
C17_EmptyNeighbourhoodTolerated ==
    /\ (/\ pc = "queried"
        /\ query_result.called
        /\ \A key \in DOMAIN At(colonies, query_result.colony).cell_grid :
              NearKey(key, query_result.point) =>
                  active(At(colonies, query_result.colony).cell_grid[key]) = <<>>)
       => (query_result.ok /\ query_result.val = <<>>)
    /\ (/\ pc = "crowded"
        /\ call.op = "CrowdingIndex.update"
        /\ call.collected
        /\ call.neighbours = <<>>)
       => (call.err = "none" /\ crowding_index_array = call.before)

EndsWithoutStep ==
    /\ pc' = "returned"
    /\ end_condition' = "No reactions left"
    /\ end_calls' = end_calls + 1
    /\ err' = "none"
    /\ UNCHANGED <<tau, run_time, age_array, DivIVA_array, total_events, cells,
                   amount, selected>>

ClockMoves ==
    \/ tau' # tau
    \/ run_time' # run_time
    \/ \E i \in 1..Len(age_array) : age_array'[i] # age_array[i]

(* C18: the check for a zero total propensity comes before the time step:  *)
(* from a refresh that left the total at 0 the run ends normally with 'No  *)
(* reactions left' without a new tau, without advancing run_time, the ages *)
(* or the polarisome amounts and without firing an event; the time step is *)
(* only taken with a total propensity above 0.                             *)
C18_ZeroPropensityEndsFirst ==
    /\ [](pc = "advanced" => total_propensity > 0)
    /\ [][((pc = "refreshed" /\ total_propensity = 0) => EndsWithoutStep)
           /\ (ClockMoves => (pc = "refreshed" /\ total_propensity > 0))]_vars

C18_Witness ==
    /\ pc = "returned"
    /\ end_condition = "No reactions left"
    /\ total_propensity = 0
    /\ total_events >= 2
    /\ run_time > 0
    /\ run_time < end_time
    /\ tau > 0

(* A step in which a growth event (a GrowCell action on the consuming      *)
(* reaction) was executed to its end.                                      *)
GrowthEventFired ==
    /\ pc = "advanced"
    /\ pc' = "loop"
    /\ total_events' = total_events + 1
    /\ At(Events, selected'[2]).action.kind = "GrowCell"
    /\ At(Events, selected'[2]).reaction = "CONSUME"

C20_SaveLoadRoundTrip ==
    (pc = "loaded" /\ call.op = "save_load") =>
        /\ call.saved
        /\ err = "none"
        /\ Len(cells) = Len(call.before.cells)
        /\ center_point_array = call.before.center_point_array
        /\ end_point_array = call.before.end_point_array
        /\ age_array = call.before.age_array
        /\ crowding_index_array = call.before.crowding_index_array
        /\ DivIVA_array = call.before.DivIVA_array
        /\ \A c \in 1..Len(cells) :
              /\ cells[c].parent = call.before.cells[c].parent
              /\ cells[c].children = call.before.cells[c].children
        /\ Len(colonies) = Len(call.before.colonies)
        /\ \A k \in 1..Len(colonies) :
              /\ SeqRange(Members(colonies[k])) = SeqRange(Members(call.before.colonies[k]))
              /\ \A c \in SeqRange(Members(colonies[k])) :
                    Occurrences(Members(colonies[k]), c) = 1

(* C21: SwitchState.update sets the cell's state and replaces that cell's  *)
(* mask row by the event-mask row of the new state, leaving the rows of    *)
(* the other cells: at every tick boundary each cell's mask row is the     *)
(* event-mask row of its state, after a fired event the selected cell is   *)
(* in the event's outgoing state, and every other cell that existed at the *)
(* start of the tick is in the state it had then.                          *)
C21_MaskRowFollowsState ==
    pc = "loop" =>
        /\ Len(cell_mask_array) = Len(cells)
        /\ \A c \in 0..(Len(cells) - 1) :
              At(cell_mask_array, c) = event_mask(At(cells, c).state)
        /\ total_events > 0 =>
              /\ At(cells, selected[1]).state = At(Events, selected[2]).out_state
              /\ \A c \in 0..(tick_start.cell_count - 1) :
                    c # selected[1] => At(cells, c).state = At(tick_start.states, c)

C21_Witness ==
    /\ pc = "loop"
    /\ total_events > 0
    /\ Len(cells) > tick_start.cell_count
    /\ At(tick_start.states, selected[1]) # At(cells, selected[1]).state
    /\ \E c \in 0..(Len(cells) - 1) :
          /\ c # selected[1]
          /\ At(cells, c).state # At(cells, selected[1]).state
          /\ At(cell_mask_array, c) # At(cell_mask_array, selected[1])

GrowCellUpdated ==
    /\ pc = "advanced"
    /\ pc' \in {"loop", "error"}
    /\ At(Events, selected'[2]).action.kind = "GrowCell"

GrowCellEffect ==
    LET parent == selected'[1]
        new_cell == Len(cells)
        colony == At(cells, parent).colony_index
        grid == At(colonies', colony).cell_grid
        old_grid == At(colonies, colony).cell_grid
    IN  /\ Len(cells') = Len(cells) + 1
        /\ At(cells', new_cell).parent = parent
        /\ At(cells', new_cell).colony_index = colony
        /\ At(cells', parent).children = Append(At(cells, parent).children, new_cell)
        /\ Occurrences(At(cells', parent).children, new_cell) = 1
        /\ At(cells', parent).parent = At(cells, parent).parent
        /\ At(cells', parent).colony_index = colony
        /\ \A c \in 0..(Len(cells) - 1) :
              c # parent =>
                 /\ At(cells', c).parent = At(cells, c).parent
                 /\ At(cells', c).children = At(cells, c).children
                 /\ At(cells', c).colony_index = At(cells, c).colony_index
        /\ Len(colonies') = Len(colonies)
        /\ Members(At(colonies', colony)) = Append(Members(At(colonies, colony)), new_cell)
        /\ Occurrences(Members(At(colonies', colony)), new_cell) = 1
        /\ \A key \in DOMAIN grid :
              active(grid[key]) =
                 (IF key = get_cell_key(At(center_point_array', new_cell))
                  THEN Append(IF key \in DOMAIN old_grid THEN active(old_grid[key]) ELSE <<>>,
                              new_cell)
                  ELSE active(old_grid[key]))
        /\ get_cell_key(At(center_point_array', new_cell)) \in DOMAIN grid
        /\ \A k \in 0..(Len(colonies) - 1) :
              k # colony => At(colonies', k) = At(colonies, k)

(* C22: GrowCell.update(parent) creates exactly one cell, whose index is   *)
(* the number of cells before the call: its parent is the given cell, it   *)
(* occurs once in that cell's children, it has the parent's colony_index,  *)
(* and its index is added once to that colony's member array and once to   *)
(* that colony's spatial index, in the bucket of its center; parent,       *)
(* children and colony_index of every other cell and the other colonies    *)
(* are as before.                                                          *)
C22_GrowCellAddsOneCell == [][GrowCellUpdated => GrowCellEffect]_vars

C22_Witness ==
    /\ pc = "loop"
    /\ total_events > 1
    /\ At(Events, selected[2]).action.kind = "GrowCell"
    /\ Len(colonies) > 1
    /\ Len(cells) = tick_start.cell_count + 1
    /\ At(cells, Len(cells) - 1).parent = selected[1]
    /\ At(cells, selected[1]).parent # NoneVal
    /\ Occurrences(Members(At(colonies, At(cells, selected[1]).colony_index)),
                   Len(cells) - 1) = 1

(* C23: at every tick boundary, from the bootstrap on, every per-cell      *)
(* store has as many populated rows as there are Cell instances: center    *)
(* points, end points, age, crowding, tracked quantity, the propensity     *)
(* matrix, the mask matrix and the condition factor matrix, with one       *)
(* column per event, event and condition in the three matrices.            *)
C23_StoresAligned ==
    pc = "loop" =>
        /\ Len(center_point_array) = Len(cells)
        /\ Len(end_point_array) = Len(cells)
        /\ Len(age_array) = Len(cells)
        /\ Len(crowding_index_array) = Len(cells)
        /\ Len(DivIVA_array) = Len(cells)
        /\ Len(event_propensities_array) = Len(cells)
        /\ Len(cell_mask_array) = Len(cells)
        /\ Len(cell_condition_factor_array) = Len(cells)
        /\ \A c \in 1..Len(cells) :
              /\ Len(event_propensities_array[c]) = NumEvents
              /\ Len(cell_mask_array[c]) = NumEvents
              /\ Len(cell_condition_factor_array[c]) = NumConditions

C23_Witness ==
    /\ pc = "loop"
    /\ total_events >= 2
    /\ Len(cells) >= 4
    /\ Len(cell_condition_factor_array) = 4
    /\ Len(colonies) = 2

NeighboursOf(cell) ==
    LET colony == At(colonies, At(cells, cell).colony_index)
    IN  {m \in SeqRange(Members(colony)) :
            /\ m # cell
            /\ DistSquared(At(center_point_array, m), At(center_point_array, cell))
                  <= PartitionSize * PartitionSize}

UsedNeighboursOf(cell) ==
    /\ cache.valid
    /\ SeqRange(cache.neighbour_indexes_cache) \ {cell} = NeighboursOf(cell)
    /\ \A i \in 1..Len(cache.neighbour_indexes_cache) :
          cache.distances_cache[i] =
             DistSquared(At(center_point_array, cache.neighbour_indexes_cache[i]),
                         At(center_point_array, cell))

(* C24: when CrowdingIndex.update(cell) has run as a new-cell action of a  *)
(* growth event, the neighbour indices and distances it used are those of  *)
(* the members of the cell's colony within the cutoff radius of the cell's *)
(* own center (the cell itself counted or not), computed in that event.    *)
C24_NeighboursOfTheCell ==
    (/\ pc \in {"loop", "error"}
     /\ selected[2] # NoneVal
     /\ At(Events, selected[2]).action.kind = "GrowCell"
     /\ CROWDING_INDEX \in SeqRange(At(Events, selected[2]).action.new_actions)
     /\ Len(cells) > tick_start.cell_count)
        => UsedNeighboursOf(Len(cells) - 1)

KernelValues == AsSeq([i \in 1..Len(cache'.distances_cache) |->
                         calc_base_crowding_index(cache'.distances_cache[i])])

KernelSumFor(c) ==
    SumSeq(AsSeq([i \in 1..Len(KernelValues) |->
                    IF cache'.neighbour_indexes_cache[i] = c THEN KernelValues[i] ELSE 0]))

CrowdingUpdated ==
    /\ GrowCellUpdated
    /\ err' = "none"
    /\ CROWDING_INDEX \in SeqRange(At(Events, selected'[2]).action.new_actions)

CrowdingEffect ==
    LET cell == Len(cells)
        touched == SeqRange(cache'.neighbour_indexes_cache) \cup {cell}
    IN  /\ \A c \in 0..(Len(cells) - 1) :
              At(crowding_index_array', c) = At(crowding_index_array, c) + KernelSumFor(c)
        /\ At(crowding_index_array', cell) = KernelSumFor(cell) + SumSeq(KernelValues)
        /\ \A c \in 0..cell :
              At(At(cell_condition_factor_array', c), CROWDING_INDEX.condition_index) =
                 (IF c \in touched
                  THEN calc_crowding_factor(At(crowding_index_array', c), CROWDING_INDEX.alpha)
                  ELSE At(At(cell_condition_factor_array, c), CROWDING_INDEX.condition_index))

CrowdingFactorConsistent ==
    \A c \in 0..(Len(cells) - 1) :
        At(crowding_index_array, c) # 0 =>
            At(At(cell_condition_factor_array, c), CROWDING_INDEX.condition_index)
               = calc_crowding_factor(At(crowding_index_array, c), CROWDING_INDEX.alpha)

(* C25: CrowdingIndex.update(cell) with neighbours n_i and kernel values   *)
(* v_i adds v_i to the crowding of n_i and the sum of the v_i to the       *)
(* crowding of cell, leaves the crowding of the other cells, and sets the  *)
(* crowding factor of cell and of every n_i to 1/(1 + crowding * alpha) of *)
(* the updated crowding; at every tick boundary every cell with non-zero   *)
(* crowding has the crowding factor of its crowding value.                 *)
C25_CrowdingAdditive ==
    /\ [](pc = "loop" => CrowdingFactorConsistent)
    /\ [][CrowdingUpdated => CrowdingEffect]_vars

C25_Witness ==
    /\ pc = "loop"
    /\ total_events >= 2
    /\ At(Events, selected[2]).action.kind = "GrowCell"
    /\ Len(cache.neighbour_indexes_cache) >= 1
    /\ \E c \in 0..(Len(cells) - 1) :
          /\ c \notin SeqRange(cache.neighbour_indexes_cache)
          /\ c # Len(cells) - 1
    /\ At(crowding_index_array, Len(cells) - 1) > 0
    /\ \E c \in SeqRange(cache.neighbour_indexes_cache) :
          At(crowding_index_array, c) > At(crowding_index_array, Len(cells) - 1)

FragmentUpdated ==
    /\ pc = "advanced"
    /\ pc' \in {"loop", "error"}
    /\ At(Events, selected'[2]).action.kind = "Fragment"
    /\ At(cells, selected'[1]).parent # NoneVal

FragmentEffect ==
    LET cell == selected'[1]
        parent == At(cells, cell).parent
        old_colony == At(cells, cell).colony_index
        branch == form_branch(cells, cell)
    IN  /\ err' = "none"
        /\ At(cells', cell).parent = NoneVal
        /\ cell \notin SeqRange(At(cells', parent).children)
        /\ Len(colonies') = Len(colonies) + 1
        /\ At(colonies', Len(colonies)).root = cell
        /\ SeqRange(Members(At(colonies', Len(colonies)))) = SeqRange(branch)
        /\ SeqRange(Members(At(colonies', old_colony)))
              = SeqRange(Members(At(colonies, old_colony))) \ SeqRange(branch)

(* C26: Fragment.update(cell) on a cell with a parent completes without    *)
(* error: the cell has no parent and is not among its former parent's      *)
(* children, a new colony exists whose root is the cell and whose members  *)
(* are exactly the subtree rooted at the cell, and the old colony's        *)
(* members are its former members minus that subtree.                      *)
C26_FragmentSplitsColony == [][FragmentUpdated => FragmentEffect]_vars

(* C27: at every tick boundary each cell's age is the run time elapsed     *)
(* since it was created: a cell of the bootstrap has age run_time, over a  *)
(* tick every cell that existed at its start aged by exactly the advance   *)
(* of run_time, a cell created in the tick has age 0, and no child is      *)
(* older than its parent; after the time step of a tick, before the event, *)
(* every cell has aged by tau.                                             *)
C27_AgeIsTimeSinceCreation ==
    /\ pc = "loop" =>
          /\ \A c \in 0..(Len(cells) - 1) :
                /\ At(cells, c).parent = NoneVal => At(age_array, c) = run_time
                /\ At(cells, c).parent # NoneVal =>
                      At(age_array, c) <= At(age_array, At(cells, c).parent)
                /\ c < tick_start.cell_count =>
                      At(age_array, c) = At(tick_start.age_array, c)
                                           + (run_time - tick_start.run_time)
                /\ c >= tick_start.cell_count => At(age_array, c) = 0
    /\ pc = "advanced" =>
          /\ run_time = tick_start.run_time + tau
          /\ Len(age_array) = tick_start.cell_count
          /\ \A c \in 0..(Len(cells) - 1) :
                At(age_array, c) = At(tick_start.age_array, c) + tau

C27_Witness ==
    /\ pc = "loop"
    /\ total_events >= 2
    /\ \E c \in 0..(Len(cells) - 1) :
          /\ At(cells, c).parent # NoneVal
          /\ At(age_array, c) > 0
          /\ At(age_array, c) < At(age_array, At(cells, c).parent)
    /\ At(age_array, Len(cells) - 1) = 0

CoefficientOf(side, x) == IF x \in DOMAIN side THEN side[x] ELSE 0

(* C28: no Element amount is ever negative: the event executed in a tick   *)
(* has a reaction whose propensity, computed in the refresh of that tick,  *)
(* is positive, every reactant's amount at that refresh was at least its   *)
(* coefficient, and since the refresh exactly that one reaction has fired. *)
C28_AmountsNeverNegative ==
    /\ \A x \in Elements : amount[x] >= 0
    /\ (pc \in {"loop", "error"} /\ selected[2] # NoneVal) =>
          LET reaction == Reactions[At(Events, selected[2]).reaction]
          IN  /\ propensity[At(Events, selected[2]).reaction] > 0
              /\ \A x \in Elements :
                    /\ tick_start.amount[x] >= CoefficientOf(reaction.reactants, x)
                    /\ amount[x] = tick_start.amount[x]
                                     - CoefficientOf(reaction.reactants, x)
                                     + CoefficientOf(reaction.products, x)

C28_Witness ==
    /\ pc = "loop"
    /\ selected[2] # NoneVal
    /\ At(Events, selected[2]).reaction = "CONVERT"
    /\ tick_start.amount["S"] = 2
    /\ amount["S"] = 0
    /\ amount["P"] = 1

Terminated == pc \in {"returned", "error"}

NutrientExhausted == pc = "loop" /\ run_time < end_time /\ amount["S"] = 0

HaltedNoReactionsLeft ==
    /\ pc = "returned"
    /\ end_condition = "No reactions left"
    /\ amount["S"] = 0

FiresAtMost(n) == amount["S"] = n => [](total_events <= n)

(* C29: with a pool of N nutrient molecules and every reaction taking at   *)
(* least one and giving none back, run() ends after at most N fired        *)
(* events: once the nutrient is exhausted before end_time, the next        *)
(* refresh gives total propensity 0 and the run halts with "No reactions   *)
(* left".                                                                  *)
C29_TerminatesWithinNutrient ==
    /\ <>Terminated
    /\ \A n \in 0..MaxStarch : FiresAtMost(n)
    /\ NutrientExhausted ~> HaltedNoReactionsLeft
    /\ [][(pc = "refreshed" /\ amount["S"] = 0) => pc' = "returned"]_vars

C29_Witness ==
    /\ HaltedNoReactionsLeft
    /\ total_events >= 2
    /\ amount["P"] = 0
    /\ run_time < end_time

(* C30: after any sequence of append and batch_remove calls on a           *)
(* DynamicArray, also one whose batch_remove left the array empty, an      *)
(* append succeeds and stores the value at logical index len-1, after the  *)
(* entries that were there.                                                *)
C30_AppendAfterRemoval ==
    call.op = "append" =>
        /\ call.ok
        /\ pc = "ops"
        /\ Len(active(darr)) = Len(call.before) + 1
        /\ At(active(darr), Len(active(darr)) - 1) = call.entry
        /\ SubSeq(active(darr), 1, Len(call.before)) = call.before

====
